---- MODULE Spec2Model ----
(***************************************************************************)
(* Model of the webtoon image generation backbone (ai_backbone_python):    *)
(* the request handler generate_image_api, the character registry it       *)
(* shares between requests, and the capabilities it calls (refine,         *)
(* build_webtoon_prompt, generate_image, translate_to_korean,              *)
(* compose_korean_scene / ko_to_ko_translate).                             *)
(*                                                                         *)
(* A Python str is a sequence of tokens; a token is one character (" ",    *)
(* ".", a letter, "eu" for U+C73C, "geu" for U+ADF8) or one fixed phrase   *)
(* of the program (a message, a prefix), written as one TLA+ string.       *)
(* Python None is the one-token sequence None, which no text contains.     *)
(***************************************************************************)
EXTENDS Integers, Sequences, FiniteSets, TLC

VARIABLES
    character_map,      \* CharacterStore._character_map: access_id -> description
    client,             \* openai_image_service.client: "ready" or "None"
    pc,                 \* position of the handler generate_image_api
    req,                \* the ImageRequest being served
    saved_character,    \* local of generate_image_api
    filtered_content,   \* local of generate_image_api
    final_prompt,       \* local of generate_image_api
    dalle_result,       \* local of generate_image_api
    dalle_revised_prompt,           \* local of generate_image_api
    refined_content_for_response,   \* local of generate_image_api
    response,           \* the ImageResponse returned to the caller
    outcome,            \* "pending", "returned" or "escaped" (exception left the handler)
    calls,              \* how often this invocation called each capability
    ev,                 \* what each capability did in this invocation
    stages,             \* the stages this invocation has run, in order
    nresp,              \* responses produced by this invocation
    nreq,               \* requests received so far
    trail,              \* per access_id, the last two writes of the registry
    last_call,          \* the last call of a CharacterStore method
    lock,               \* CharacterStore._access_lock: its owner, 0 when free
    threads,            \* the threads inside CharacterStore methods
    fcall,              \* the last call of a pure function, with its result
    nadmin,             \* management requests served so far
    nother,             \* set_character calls of other generation requests
    singleton           \* the class CharacterStore: _instance and what __init__ did

vars == << character_map, client, pc, req, saved_character, filtered_content,
           final_prompt, dalle_result, dalle_revised_prompt,
           refined_content_for_response, response, outcome, calls, ev,
           stages, nresp, nreq, trail, last_call, lock, threads, fcall, nadmin,
                    nother, singleton >>

\* the state of one invocation of generate_image_api
handler_vars == << pc, req, saved_character, filtered_content, final_prompt,
                   dalle_result, dalle_revised_prompt,
                   refined_content_for_response, response, outcome, calls, ev,
                   stages, nresp, nreq >>

\* what the log of the registry records
registry_log == << trail, last_call >>

\* the lock of the registry and the threads at it
lock_vars == << lock, threads >>

-----------------------------------------------------------------------------
(* Bounds *)

\* requests served in one run
MaxRequests == 2
\* calls of one capability counted in one invocation
MaxCalls == 2
\* threads that call the registry at the same time
MaxThreads == 2
\* management requests served in one run
MaxAdminRequests == 1
\* set_character calls of other generation requests in one run
MaxOtherRequests == 1

-----------------------------------------------------------------------------
(* Python str and Optional[str] *)

None == << "None" >>

\* truthiness of an Optional[str]: neither None nor ""
Truthy(s) == s # None /\ s # << >>

RECURSIVE LStrip(_)
LStrip(s) == IF s # << >> /\ Head(s) = " " THEN LStrip(Tail(s)) ELSE s

RECURSIVE RStrip(_)
RStrip(s) ==
    IF s # << >> /\ s[Len(s)] = " " THEN RStrip(SubSeq(s, 1, Len(s) - 1)) ELSE s

\* str.strip()
Strip(s) == RStrip(LStrip(s))

\* the idiom "x and x.strip()"
NotBlank(s) == Truthy(s) /\ Strip(s) # << >>

\* str.find(c): the first index of token c (1-based), 0 when absent
RECURSIVE FindFrom(_, _, _)
FindFrom(s, c, i) ==
    IF i > Len(s) THEN 0
    ELSE IF s[i] = c THEN i
    ELSE FindFrom(s, c, i + 1)

\* "sub in s" for a one-token sub
Contains(s, c) == FindFrom(s, c, 1) # 0

\* "sub in s": s holds the tokens of sub in a row
ContainsSeq(s, sub) ==
    \E i \in 1 .. (Len(s) - Len(sub) + 1) :
        SubSeq(s, i, i + Len(sub) - 1) = sub

-----------------------------------------------------------------------------
(* Fixed texts of the program *)

\* "프롬프트가 비어있습니다."
MSG_EMPTY_PROMPT == << "MSG: prompt is empty" >>
\* "프롬프트 정제 중 오류가 발생했습니다."
MSG_PURIFY_ERROR == << "MSG: error while purifying the prompt" >>
\* "이미지 생성 중 오류가 발생했습니다."
MSG_TRANSPORT_ERROR == << "MSG: error while generating the image" >>
\* "콘텐츠 정책에 위반되어 이미지를 만들지 않습니다."
MSG_POLICY == << "MSG: content policy violated, no image is made" >>
\* "이미지 생성 실패: "
MSG_FAILED_PREFIX == << "MSG: image generation failed: " >>
\* "알 수 없는 오류"
MSG_UNKNOWN == << "MSG: unknown error" >>
\* "서버 내부 오류가 발생했습니다."
MSG_INTERNAL == << "MSG: internal server error" >>

POLICY_TOKEN == "content_policy_violation"

-----------------------------------------------------------------------------
(* app/model/purifier.py *)

\* re.sub(r"(geu geu geu|eu eu)", "", text or ""): leftmost matches, left to right
RECURSIVE RemoveDummyFrom(_, _)
RemoveDummyFrom(s, i) ==
    IF i > Len(s) THEN << >>
    ELSE IF i + 2 <= Len(s) /\ s[i] = "geu" /\ s[i + 1] = "geu" /\ s[i + 2] = "geu"
         THEN RemoveDummyFrom(s, i + 3)
    ELSE IF i + 1 <= Len(s) /\ s[i] = "eu" /\ s[i + 1] = "eu"
         THEN RemoveDummyFrom(s, i + 2)
    ELSE << s[i] >> \o RemoveDummyFrom(s, i + 1)

remove_dummy_tokens(text) ==
    RemoveDummyFrom(IF Truthy(text) THEN text ELSE << >>, 1)

keep_before_first_period(text) ==
    IF ~Truthy(text) THEN << " " >>
    ELSE LET pos == FindFrom(text, ".", 1)
         IN  IF pos = 0 THEN text ELSE SubSeq(text, 1, pos - 1)

\* What the model call purify_sentence does: it raises, or it decodes a text.
ModelRaises == [kind |-> "raise", text |-> None]
ModelText(t) == [kind |-> "text", text |-> t]

\* mutant: the except branch returns an empty text
refine_EmptyOnFailure(text, m) ==
    IF m.kind = "raise" THEN << >>
    ELSE keep_before_first_period(remove_dummy_tokens(m.text))

\* refine(text) when purify_sentence behaves as m: the except branch returns
\* the input text unchanged.
refine(text, m) ==
    IF m.kind = "raise" THEN text
    ELSE keep_before_first_period(remove_dummy_tokens(m.text))

-----------------------------------------------------------------------------
(* app/service/prompt_builder.py *)

STYLE_KEYWORDS_TO_REMOVE ==
    << << "webtoon style illustration" >>, << "clean lines" >>,
       << "vibrant colors" >>, << "professional digital illustration" >>,
       << "studio quality" >>, << "manhwa art style" >>, << "digital art" >> >>

\* sep.join(parts)
RECURSIVE Join(_, _)
Join(parts, sep) ==
    IF parts = << >> THEN << >>
    ELSE IF Len(parts) = 1 THEN parts[1]
    ELSE parts[1] \o sep \o Join(Tail(parts), sep)

\* build_webtoon_prompt that joins all the style keywords
build_webtoon_prompt_AllKeywords(character_description, scene_description, include_style) ==
    LET style_part ==
            IF include_style
            THEN << Join(STYLE_KEYWORDS_TO_REMOVE, << ",", " " >>) >>
            ELSE << >>
        character_part ==
            IF NotBlank(character_description)
            THEN << << "Character: " >> \o Strip(character_description) >>
            ELSE << >>
        scene_part ==
            IF NotBlank(scene_description)
            THEN << << "Scene: " >> \o Strip(scene_description) >>
            ELSE << >>
    IN  Join(style_part \o character_part \o scene_part, << ".", " " >>) \o << "." >>

build_webtoon_prompt(character_description, scene_description, include_style) ==
    LET style_part ==
            IF include_style
            THEN << Join(SubSeq(STYLE_KEYWORDS_TO_REMOVE, 1, 5), << ",", " " >>) >>
            ELSE << >>
        character_part ==
            IF NotBlank(character_description)
            THEN << << "Character: " >> \o Strip(character_description) >>
            ELSE << >>
        scene_part ==
            IF NotBlank(scene_description)
            THEN << << "Scene: " >> \o Strip(scene_description) >>
            ELSE << >>
    IN  Join(style_part \o character_part \o scene_part, << ".", " " >>) \o << "." >>

\* What the HTTP call of a translator does: requests.get / raise_for_status /
\* res.json() raises (connection error, timeout, HTTP status, bad JSON), or the
\* body decodes to data.  shape "list": data is a non-empty list whose data[0]
\* is a list; segs[i] is data[0][i][0], the text of segment i (None or "" when
\* the segment has none).  shape "other": any other JSON value.  A segment
\* whose text is not a str makes join raise inside the try, which ends as
\* HttpRaises does.
HttpRaises == [kind |-> "raise", shape |-> "none", segs |-> << >>]
HttpOther == [kind |-> "json", shape |-> "other", segs |-> << >>]
HttpList(segs) == [kind |-> "json", shape |-> "list", segs |-> segs]
NoHttp == [kind |-> "none", shape |-> "none", segs |-> << >>]

\* "".join(seg for seg in segs if seg)
RECURSIVE JoinTruthy(_)
JoinTruthy(segs) ==
    IF segs = << >> THEN << >>
    ELSE (IF Truthy(Head(segs)) THEN Head(segs) ELSE << >>) \o JoinTruthy(Tail(segs))

\* mutant: nothing comes back when the HTTP call fails
ko_to_ko_translate_EmptyOnFailure(text, h) ==
    IF h.kind = "raise" \/ h.shape # "list" THEN << >>
    ELSE Strip(JoinTruthy(h.segs))

\* ko_to_ko_translate(text) when the HTTP call behaves as h.  data[0] of a
\* JSON value of another shape raises inside the try: the text comes back.
ko_to_ko_translate(text, h) ==
    IF h.kind = "raise" \/ h.shape # "list" THEN text
    ELSE Strip(JoinTruthy(h.segs))

\* "의 모습이 담긴 장면으로, "
KO_SCENE_WITH == << "KO: in a scene showing this character, " >>

compose_korean_scene(character_description, scene_description, h) ==
    LET scene == Strip(scene_description)
        text  == IF Truthy(character_description)
                 THEN Strip(character_description) \o KO_SCENE_WITH \o scene
                 ELSE scene
    IN  ko_to_ko_translate(text, h)

-----------------------------------------------------------------------------
(* app/service/translator.py *)

\* translate_to_korean(text) when the HTTP call behaves as h: the first
\* segment of data[0] is dropped.
translate_to_korean(text, h) ==
    IF ~Truthy(text) THEN << >>
    ELSE IF h.kind = "raise" THEN text
    ELSE IF h.shape = "list"
         THEN LET translated ==
                      JoinTruthy(IF h.segs = << >> THEN << >> ELSE Tail(h.segs))
              IN  IF translated # << >> THEN Strip(translated) ELSE << >>
    ELSE text

-----------------------------------------------------------------------------
(* app/service/openai_image_service.py *)

\* What client.images.generate does.  It returns resp, of shape
\*   "falsy"  : resp is falsy or has no attribute data,
\*   "empty"  : resp.data is empty,
\*   "broken" : reading resp raises an exception with text msg,
\*   "item"   : resp.data[0] has url (None also when reading it raises
\*              AttributeError, IndexError or TypeError) and revised_prompt;
\* or it raises the exception kind with text msg.
BackendResp(shape, url, revised, msg) ==
    [kind |-> "resp", shape |-> shape, url |-> url, revised |-> revised, msg |-> msg]
BackendExc(kind, msg) ==
    [kind |-> kind, shape |-> "none", url |-> None, revised |-> None, msg |-> msg]

DalleDict(image_url, refined_content, error_message) ==
    [image_url |-> image_url, refined_content |-> refined_content,
     error_message |-> error_message]

DalleFailure(msg) == DalleDict(None, None, msg)

\* "서버 문제로 이미지를 생성하지 못합니다."
MSG_DALLE_INVALID == << "MSG: no image because of a server problem" >>

\* the parse of resp without the check of the URL (lines 175-182)
ParseBackendResp_NoUrlCheck(b) ==
    IF b.shape = "falsy"
    THEN DalleFailure(<< "Invalid OpenAI response structure (no data)" >>)
    ELSE IF b.shape = "empty"
    THEN DalleFailure(<< "OpenAI response data is empty" >>)
    ELSE IF b.shape = "broken"
    THEN DalleFailure(<< "Failed to parse OpenAI response: " >> \o b.msg)
    ELSE LET image_url == IF NotBlank(b.url) THEN b.url ELSE None
             refined_content == IF image_url # None THEN b.revised ELSE None
         IN  DalleDict(image_url, refined_content, None)

\* the parse of resp, lines 100-186
ParseBackendResp(b) ==
    IF b.shape = "falsy"
    THEN DalleFailure(<< "Invalid OpenAI response structure (no data)" >>)
    ELSE IF b.shape = "empty"
    THEN DalleFailure(<< "OpenAI response data is empty" >>)
    ELSE IF b.shape = "broken"
    THEN DalleFailure(<< "Failed to parse OpenAI response: " >> \o b.msg)
    ELSE LET image_url == IF NotBlank(b.url) THEN b.url ELSE None
             refined_content == IF image_url # None THEN b.revised ELSE None
         IN  IF image_url = None
             THEN DalleFailure(<< "OpenAI response has no image url" >>)
             ELSE DalleDict(image_url, refined_content, None)

\* generate_image(models, prompt, ...) when the backend behaves as b; cl is
\* the module's client.
generate_image(cl, models, prompt, b) ==
    IF cl = "None" THEN DalleFailure(<< "OpenAI client is not initialized" >>)
    ELSE IF ~NotBlank(prompt) THEN DalleFailure(MSG_DALLE_INVALID)
    ELSE IF ~NotBlank(models) THEN DalleFailure(MSG_DALLE_INVALID)
    ELSE IF b.kind = "resp" THEN ParseBackendResp(b)
    ELSE IF b.kind = "BadRequestError"
         THEN IF Contains(b.msg, POLICY_TOKEN)
              THEN DalleFailure(<< POLICY_TOKEN >>)
              ELSE DalleFailure(<< "Bad request: " >> \o b.msg)
    ELSE IF b.kind = "RateLimitError"
         THEN DalleFailure(<< "Rate limit exceeded. Please try again later." >>)
    ELSE IF b.kind = "APIConnectionError"
         THEN DalleFailure(
                  << "Failed to connect to OpenAI API. Please check your network." >>)
    ELSE IF b.kind = "APIError"
         THEN DalleFailure(<< "OpenAI API error: " >> \o b.msg)
    ELSE DalleFailure(<< "Unexpected error: " >> \o b.msg)

-----------------------------------------------------------------------------
(* app/core/character_store.py *)

\* set_character that keeps the entry an access_id already has
set_character_KeepFirst(map, access_id, character_description) ==
    IF ~NotBlank(access_id) THEN map
    ELSE IF ~NotBlank(character_description) THEN map
    ELSE [k \in DOMAIN map \cup {access_id} |->
              IF k \in DOMAIN map THEN map[k] ELSE Strip(character_description)]

\* set_character without the check of the description
set_character_NoDescriptionCheck(map, access_id, character_description) ==
    IF ~NotBlank(access_id) THEN map
    ELSE [k \in DOMAIN map \cup {access_id} |->
              IF k = access_id THEN Strip(character_description) ELSE map[k]]

\* set_character that stores the description as it was given
set_character_NoStrip(map, access_id, character_description) ==
    IF ~NotBlank(access_id) THEN map
    ELSE IF ~NotBlank(character_description) THEN map
    ELSE [k \in DOMAIN map \cup {access_id} |->
              IF k = access_id THEN character_description ELSE map[k]]

\* mutant: no check of the access_id
set_character_NoIdCheck(map, access_id, character_description) ==
    IF ~NotBlank(character_description) THEN map
    ELSE [k \in DOMAIN map \cup {access_id} |->
              IF k = access_id THEN Strip(character_description) ELSE map[k]]

\* mutant: the description is written to every entry of the map
set_character_EveryOwner(map, access_id, character_description) ==
    IF ~NotBlank(access_id) THEN map
    ELSE IF ~NotBlank(character_description) THEN map
    ELSE [k \in DOMAIN map \cup {access_id} |-> Strip(character_description)]

\* CharacterStore.set_character: the map after the call
set_character(map, access_id, character_description) ==
    IF ~NotBlank(access_id) THEN map
    ELSE IF ~NotBlank(character_description) THEN map
    ELSE [k \in DOMAIN map \cup {access_id} |->
              IF k = access_id THEN Strip(character_description) ELSE map[k]]

\* get_character that finds nothing
get_character_Miss(map, access_id) == None

\* CharacterStore.get_character
get_character(map, access_id) ==
    IF ~NotBlank(access_id) THEN None
    ELSE IF access_id \in DOMAIN map THEN map[access_id] ELSE None

\* CharacterStore.has_character: "if not access_id" is true of "" alone
has_character(map, access_id) ==
    IF ~Truthy(access_id) THEN FALSE
    ELSE access_id \in DOMAIN map

\* remove_character that answers without deleting
remove_character_KeepEntry(map, access_id) == map

\* CharacterStore.remove_character: the map after the call
remove_character(map, access_id) ==
    IF ~Truthy(access_id) THEN map
    ELSE IF access_id \in DOMAIN map
         THEN [k \in DOMAIN map \ {access_id} |-> map[k]]
         ELSE map

\* CharacterStore.remove_character: what the call returns
remove_character_result(map, access_id) ==
    IF ~Truthy(access_id) THEN FALSE
    ELSE access_id \in DOMAIN map

\* CharacterStore.get_all_access_ids: the keys of the map
get_all_access_ids(map) == DOMAIN map

\* CharacterStore.clear_all: the map after the call
clear_all(map) == [k \in {} |-> << >>]

\* CharacterStore.get_stats
get_stats(map) ==
    [total_characters |-> Cardinality(DOMAIN map),
     access_ids       |-> DOMAIN map]

\* the class CharacterStore: how many objects __new__ has created (_instance
\* is None when there is none), _initialized of the instance ("unset" before
\* __new__ gave it a value), and what happened to _character_map and
\* _access_lock: "none" before the first assignment, "first" after it,
\* "replaced" once they were assigned again
StoreClass(objects, initialized, maps, locks) ==
    [objects |-> objects, initialized |-> initialized, maps |-> maps,
     locks |-> locks]

\* lines 16-17: the class is defined, _instance = None
ClassDefined == StoreClass(0, "unset", "none", "none")

\* an attribute of the instance after one more assignment
Assigned(m) == IF m = "none" THEN "first" ELSE "replaced"

\* CharacterStore.__new__, lines 19-25: the class after the call
StoreNew(c) ==
    IF c.objects = 0
    THEN [c EXCEPT !.objects = 1, !.initialized = "False"]
    ELSE c

\* mutant: __init__ without the test of _initialized
AlreadyInitialized_Never(c) == FALSE

\* lines 28-29: "if self._initialized: return"
AlreadyInitialized(c) == c.initialized = "True"

\* CharacterStore.__init__, lines 27-34: the class after the call
StoreInit(c) ==
    IF AlreadyInitialized(c) THEN c
    ELSE [c EXCEPT !.maps = Assigned(@), !.locks = Assigned(@),
                   !.initialized = "True"]

\* _character_map after __init__: line 31 assigns an empty dict
StoreInitMap(c, map) ==
    IF AlreadyInitialized(c) THEN map ELSE [k \in {} |-> << >>]

\* lines 147-148: the module is imported, character_store = CharacterStore()
Imported == StoreInit(StoreNew(ClassDefined))

-----------------------------------------------------------------------------
(* app/service/post_processor.py *)

\* is_over_modified with the upper limit itself rejected
is_over_modified_AtLeast(original, purified) ==
    LET original_len == Len(Strip(original))
        purified_len == Len(Strip(purified))
    IN  IF original_len = 0 THEN FALSE
        ELSE \/ 10 * purified_len >= 17 * original_len
             \/ 2 * purified_len < original_len

\* is_over_modified: len_ratio = purified_len / original_len is compared
\* with 1.7 and 0.5; the quotient of two lengths is rounded to the double
\* nearest to it, and so is each literal, so len_ratio > 1.7 exactly when
\* 10 * purified_len > 17 * original_len, and len_ratio < 0.5 exactly when
\* 2 * purified_len < original_len
is_over_modified(original, purified) ==
    LET original_len == Len(Strip(original))
        purified_len == Len(Strip(purified))
    IN  IF original_len = 0 THEN FALSE
        ELSE \/ 10 * purified_len > 17 * original_len
             \/ 2 * purified_len < original_len

\* the words of s from token i on, cur being the word read so far
RECURSIVE WordsFrom(_, _, _)
WordsFrom(s, i, cur) ==
    IF i > Len(s) THEN (IF cur = << >> THEN {} ELSE { cur })
    ELSE IF s[i] \in { " ", ",", "." }
         THEN (IF cur = << >> THEN {} ELSE { cur }) \cup WordsFrom(s, i + 1, << >>)
         ELSE WordsFrom(s, i + 1, Append(cur, s[i]))

\* set(text.replace(',', ' ').replace('.', ' ').split())
WordSet(text) == WordsFrom(text, 1, << >>)

\* check_meaning_preservation that rejects at the threshold
check_meaning_preservation_Inclusive(original, purified) ==
    LET original_words == WordSet(original)
        purified_words == WordSet(purified)
        overlap == Cardinality(original_words \cap purified_words)
    IN  IF original_words = {} THEN TRUE
        ELSE ~(10 * overlap <= 4 * Cardinality(original_words))

\* check_meaning_preservation: similarity = overlap / len(original_words) is
\* compared with threshold = 0.4; similarity < 0.4 exactly when
\* 10 * overlap < 4 * len(original_words)
check_meaning_preservation(original, purified) ==
    LET original_words == WordSet(original)
        purified_words == WordSet(purified)
        overlap == Cardinality(original_words \cap purified_words)
    IN  IF original_words = {} THEN TRUE
        ELSE ~(10 * overlap < 4 * Cardinality(original_words))

\* In the texts the validator is given every token is one character. These
\* stand for whitespace, punctuation and digits; every other token stands
\* for a Hangul syllable or a Latin letter.
NonLetters ==
    { " ", ",", ".", "!", "?", "<", ">", "[", "]", "/", "0", "1" }

\* re.search(r'[가-힣a-zA-Z]', purified)
HasLetter(text) == \E i \in 1 .. Len(text) : text[i] \notin NonLetters

\* mutant: a character four times in a row is rejected already
HasRepeatedCharacter_FourTimes(text) ==
    \E i \in 1 .. (Len(text) - 3) :
        \A j \in 1 .. 3 : text[i + j] = text[i]

\* re.search(r'(.)\1{4,}', purified): one character five times in a row
HasRepeatedCharacter(text) ==
    \E i \in 1 .. (Len(text) - 4) :
        \A j \in 1 .. 4 : text[i + j] = text[i]

\* invalid_tokens: '<unk>', '[PAD]', '[UNK]', '<pad>', '<s>', '</s>'
INVALID_TOKENS ==
    { << "<", "u", "n", "k", ">" >>, << "[", "P", "A", "D", "]" >>,
      << "[", "U", "N", "K", "]" >>, << "<", "p", "a", "d", ">" >>,
      << "<", "s", ">" >>, << "<", "/", "s", ">" >> }

validate_output(purified) ==
    IF ~NotBlank(purified) THEN FALSE
    ELSE IF Len(Strip(purified)) < 2 THEN FALSE
    ELSE IF HasRepeatedCharacter(purified) THEN FALSE
    ELSE IF ~HasLetter(purified) THEN FALSE
    ELSE IF \E token \in INVALID_TOKENS : ContainsSeq(purified, token) THEN FALSE
    ELSE TRUE

\* WHITELIST, one token a syllable: 좋아 싫어 예뻐 귀여워 멋있어 보고싶어
\* 사랑해 맛있어 재미있어 고마워 미안해 반가워 즐거워 행복해 신나 기뻐 슬퍼
WHITELIST ==
    { << "jo", "a" >>, << "silh", "eo" >>, << "ye", "ppeo" >>,
      << "gwi", "yeo", "wo" >>, << "meos", "iss", "eo" >>,
      << "bo", "go", "sip", "eo" >>, << "sa", "rang", "hae" >>,
      << "mas", "iss", "eo" >>, << "jae", "mi", "iss", "eo" >>,
      << "go", "ma", "wo" >>, << "mi", "an", "hae" >>,
      << "ban", "ga", "wo" >>, << "jeul", "geo", "wo" >>,
      << "haeng", "bok", "hae" >>, << "sin", "na" >>, << "gi", "ppeo" >>,
      << "seul", "peo" >> }

\* text.replace(' ', '')
WithoutSpaces(text) == SelectSeq(text, LAMBDA t : t # " ")

\* is_whitelisted: text_clean holds no whitespace, so text_clean.split() is
\* [text_clean], or [] when text_clean is empty
is_whitelisted(text) ==
    LET text_clean == WithoutSpaces(Strip(text))
        words == IF text_clean = << >> THEN << >> ELSE << text_clean >>
    IN  IF text_clean \in WHITELIST THEN TRUE
        ELSE IF Len(text_clean) <= 5
                /\ \A i \in 1 .. Len(words) : words[i] \in WHITELIST
             THEN TRUE
        ELSE FALSE

\* the check whose warning post_process logs before it returns the original
\* (lines 28, 33, 38, 43), "none" when it logs the completion (line 51)
post_process_fallback(original, purified) ==
    IF ~validate_output(purified) THEN "validate_output"
    ELSE IF is_over_modified(original, purified) THEN "is_over_modified"
    ELSE IF ~check_meaning_preservation(original, purified)
         THEN "check_meaning_preservation"
    ELSE IF is_whitelisted(original) THEN "is_whitelisted"
    ELSE "none"

\* post_process without the final strip()
post_process_NoStrip(original, purified) ==
    IF ~validate_output(purified) THEN original
    ELSE IF is_over_modified(original, purified) THEN original
    ELSE IF ~check_meaning_preservation(original, purified) THEN original
    ELSE IF is_whitelisted(original) THEN original
    ELSE purified

\* post_process without the whitelist step
post_process_NoWhitelist(original, purified) ==
    IF ~validate_output(purified) THEN original
    ELSE IF is_over_modified(original, purified) THEN original
    ELSE IF ~check_meaning_preservation(original, purified) THEN original
    ELSE Strip(purified)

post_process(original, purified) ==
    IF ~validate_output(purified) THEN original
    ELSE IF is_over_modified(original, purified) THEN original
    ELSE IF ~check_meaning_preservation(original, purified) THEN original
    ELSE IF is_whitelisted(original) THEN original
    ELSE Strip(purified)

-----------------------------------------------------------------------------
(* app/api/v1/api_image.py: constants, DTOs and the responses of each exit *)

IMAGE_MODEL == << "dall-e-3" >>

ImageRequest(access_id, original_content, is_slang, access_id_character) ==
    [access_id |-> access_id, original_content |-> original_content,
     is_slang |-> is_slang, access_id_character |-> access_id_character]

ImageResponse(r, filtered, refined, revised, image_url, error_message) ==
    [access_id |-> r.access_id, is_slang |-> r.is_slang,
     original_content |-> r.original_content,
     filtered_content |-> filtered, refined_content |-> refined,
     revised_prompt |-> revised,
     image_url |-> image_url, error_message |-> error_message]

\* mutant: the error message is left out of the response
ValidationErrorResponse_NoMessage(r) ==
    ImageResponse(r, << >>, << >>, << >>, None, None)

\* lines 72-81
ValidationErrorResponse(r) ==
    ImageResponse(r, << >>, << >>, << >>, None, MSG_EMPTY_PROMPT)

\* lines 119-128 and 143-152
PurificationErrorResponse(r) ==
    ImageResponse(r, << >>, << >>, << >>, None, MSG_PURIFY_ERROR)

\* mutant: the response of the earlier stages, with no filtered text
TransportErrorResponse_NoFiltered(r, filtered) ==
    ImageResponse(r, << >>, << >>, << >>, None, MSG_TRANSPORT_ERROR)

\* lines 232-241
TransportErrorResponse(r, filtered) ==
    ImageResponse(r, filtered, << >>, << >>, None, MSG_TRANSPORT_ERROR)

\* mutant: refined_content left empty as in the other failures
PolicyRejectedResponse_NoRefined(r, filtered) ==
    ImageResponse(r, filtered, << >>, << >>, None, MSG_POLICY)

\* lines 254-263
PolicyRejectedResponse(r, filtered) ==
    ImageResponse(r, filtered, filtered, << >>, None, MSG_POLICY)

\* mutant: the detail of the capability is dropped
ServiceErrorResponse_NoDetail(r, filtered, error_message) ==
    ImageResponse(r, filtered, << >>, << >>, None, MSG_FAILED_PREFIX \o MSG_UNKNOWN)

\* lines 271-280
ServiceErrorResponse(r, filtered, error_message) ==
    ImageResponse(r, filtered, << >>, << >>, None,
                  MSG_FAILED_PREFIX \o
                      (IF Truthy(error_message) THEN error_message ELSE MSG_UNKNOWN))

\* mutant: revised_prompt is the revised text of the capability as it came
SuccessResponse_Untranslated(r, filtered, refined, revised, result) ==
    ImageResponse(r, filtered, refined, result.refined_content,
                  result.image_url, None)

\* lines 348-357
SuccessResponse(r, filtered, refined, revised, result) ==
    ImageResponse(r, filtered, refined, revised, result.image_url, None)

\* the outermost except answering as if it had no request
UnexpectedErrorResponse_UnknownRequest(r, filtered) ==
    ImageResponse(ImageRequest(<< "Unknown" >>, << >>, FALSE, None), filtered,
                  IF Truthy(filtered) THEN filtered ELSE << >>,
                  << >>, None, MSG_INTERNAL)

\* lines 367-376
UnexpectedErrorResponse(r, filtered) ==
    ImageResponse(r, filtered, IF Truthy(filtered) THEN filtered ELSE << >>,
                  << >>, None, MSG_INTERNAL)

NoRequest == ImageRequest(None, None, FALSE, None)
NoResponse == ImageResponse(NoRequest, None, None, None, None, None)
NoResult == DalleDict(None, None, None)
NoBackend == BackendExc("none", << >>)
NoCalls ==
    [refine |-> 0, generate_image |-> 0, translate_to_korean |-> 0,
     ko_to_ko_translate |-> 0, set_character |-> 0, get_character |-> 0]
NoEvents ==
    [refine |-> "none", purified |-> None, compose |-> "none",
     generate |-> "none", backend |-> NoBackend,
     translate |-> "none", http |-> NoHttp, localize |-> "none"]

-----------------------------------------------------------------------------
(* How a step of the handler ends: it returns a response, it goes on to the
   next statement, or the exception leaves the handler. *)

Return(resp) == [pc |-> "done", outcome |-> "returned", response |-> resp]
Goto(next) == [pc |-> next, outcome |-> "pending", response |-> NoResponse]
Escape == [pc |-> "done", outcome |-> "escaped", response |-> NoResponse]

\* mutant: the check without strip()
IsEmptyPrompt_NoStrip(original_content) == ~Truthy(original_content)

\* line 70: not req.original_content or not req.original_content.strip()
IsEmptyPrompt(original_content) == ~NotBlank(original_content)

\* line 86: req.access_id_character and req.access_id_character.strip()
CarriesCharacter(r) == NotBlank(r.access_id_character)

\* mutant: the scene text is stripped on the way
Unpurified_Stripped(r) == Strip(r.original_content)

\* lines 133-136: the scene text of a request that asks for no purification
Unpurified(r) == r.original_content

\* mutant: the check without strip()
PurifyResult_NoStrip(r, purified_prompt) ==
    IF ~Truthy(purified_prompt)
    THEN Return(PurificationErrorResponse(r))
    ELSE Goto("compose")

\* lines 114-128: the check of the text refine returned
PurifyResult(r, purified_prompt) ==
    IF ~NotBlank(purified_prompt)
    THEN Return(PurificationErrorResponse(r))
    ELSE Goto("compose")

\* mutant: the purification is tried again
PurifyExcept_Retry(r) == Goto("purify")

\* lines 138-152: except around the purification stage
PurifyExcept(r) == Return(PurificationErrorResponse(r))

\* mutant: the call is tried again
GenerateExcept_Retry(r, filtered) == Goto("generate")

\* lines 227-241: except around the call of generate_image
GenerateExcept(r, filtered) == Return(TransportErrorResponse(r, filtered))

\* mutant: the classification without the check of the URL
ClassifyResult_NoUrlCheck(r, filtered, result) ==
    IF result.error_message = << POLICY_TOKEN >>
    THEN Return(PolicyRejectedResponse(r, filtered))
    ELSE Goto("translate")

\* lines 246-280: classification of the result of generate_image
ClassifyResult(r, filtered, result) ==
    IF result.error_message = << POLICY_TOKEN >>
    THEN Return(PolicyRejectedResponse(r, filtered))
    ELSE IF result.image_url = None
    THEN Return(ServiceErrorResponse(r, filtered, result.error_message))
    ELSE Goto("translate")

\* mutant: no handler around the translation, the outermost except answers
TranslateExcept_Terminal(r, filtered) ==
    [pc |-> "done", outcome |-> "returned",
     response |-> UnexpectedErrorResponse(r, filtered), text |-> filtered]

\* lines 300-306: except around the call of translate_to_korean; text is the
\* value dalle_revised_prompt gets
TranslateExcept(r, filtered) ==
    [pc |-> "localize", outcome |-> "pending", response |-> NoResponse,
     text |-> filtered]

\* lines 338-343: except around the preparation of the response; text is the
\* value refined_content_for_response gets
LocalizeExcept(r, filtered) ==
    [pc |-> "respond", outcome |-> "pending", response |-> NoResponse,
     text |-> filtered]

\* mutant: no outermost except
OuterExcept_Reraise(r, filtered) == Escape

\* mutant: the outermost except answers as the except of the generation
OuterExcept_AsTransport(r, filtered) ==
    Return(TransportErrorResponse(r, filtered))

\* lines 362-376: the outermost except
OuterExcept(r, filtered) == Return(UnexpectedErrorResponse(r, filtered))

-----------------------------------------------------------------------------
(* The requests that arrive and the behaviours of the services behind the
   capabilities *)

AccessIds == { << "u" >>, << "v" >> }

SceneTexts == { << >>, << " " >>, << "a" >>, << " ", "b", "." >> }

CharacterInputs == { None, << " " >>, << " ", "c" >> }

\* purify_sentence
ModelBehaviours ==
    { ModelRaises, ModelText(<< >>), ModelText(<< "eu", "eu" >>),
      ModelText(<< ".", "a" >>), ModelText(<< " ", "b" >>),
      ModelText(<< "a", "eu", "eu", ".", "b" >>) }

IMAGE_URL == << "https://img/1" >>

\* client.images.generate
BackendBehaviours ==
    { BackendResp("item", IMAGE_URL, None, << >>),
      BackendResp("item", IMAGE_URL, << " " >>, << >>),
      BackendResp("item", IMAGE_URL, << "r", " " >>, << >>),
      BackendResp("item", None, << "r" >>, << >>),
      BackendResp("item", << " " >>, None, << >>),
      BackendResp("falsy", None, None, << >>),
      BackendResp("empty", None, None, << >>),
      BackendResp("broken", None, None, << "KeyError" >>),
      BackendExc("BadRequestError", << "Error code: 400 - ", POLICY_TOKEN >>),
      BackendExc("BadRequestError", << "Error code: 400" >>),
      BackendExc("RateLimitError", << "Error code: 429" >>),
      BackendExc("APIConnectionError", << "Connection error." >>),
      BackendExc("APIError", << "Error code: 500" >>),
      BackendExc("Exception", << "boom" >>) }

\* the HTTP call of translate_to_korean
TranslateBehaviours ==
    { HttpRaises, HttpOther, HttpList(<< >>), HttpList(<< << "x" >> >>),
      HttpList(<< << "x" >>, << "k", " " >> >>),
      HttpList(<< << "x" >>, None, << " " >> >>) }

\* the HTTP call of ko_to_ko_translate
KoBehaviours ==
    { HttpRaises, HttpOther, HttpList(<< << " ", "k" >>, << >>, << "o" >> >>) }

-----------------------------------------------------------------------------
(* State machine *)

EmptyMap == [k \in {} |-> << >>]

\* a write of the registry as the log keeps it: the method, the description
\* it was given, the path it came from, what it returned and whether the
\* access_id had an entry just before
Write(op, arg, src, ret, existed) ==
    [op |-> op, arg |-> arg, src |-> src, ret |-> ret, existed |-> existed]

NoWrite == Write("none", None, "none", FALSE, FALSE)

NoTrail == [a \in AccessIds |-> [prev |-> NoWrite, last |-> NoWrite]]

\* the log after the write w of access_id a
Logged(tr, a, w) ==
    IF a \in DOMAIN tr
    THEN [tr EXCEPT ![a] = [prev |-> @.last, last |-> w]]
    ELSE tr

\* the log after set_character(a, d): a call that passes both checks writes
SetLogged(tr, map, a, d, src) ==
    IF NotBlank(a) /\ NotBlank(d)
    THEN Logged(tr, a, Write("set", d, src, FALSE, a \in DOMAIN map))
    ELSE tr

\* the log after remove_character(a) returned ret
RemoveLogged(tr, map, a, src, ret) ==
    Logged(tr, a, Write("remove", None, src, ret, a \in DOMAIN map))

\* the log after clear_all(): every access_id lost its entry
ClearLogged(tr, map, src) ==
    [a \in DOMAIN tr |->
        [prev |-> tr[a].last,
         last |-> Write("clear", None, src, FALSE, a \in DOMAIN map)]]

\* a call of a CharacterStore method: its arguments, the text or the flag it
\* returned and whether the access_id had an entry just before; seq tells
\* one call from the next
StoreCall(seq, op, id, arg, text, flag, existed) ==
    [seq |-> seq, op |-> op, id |-> id, arg |-> arg, text |-> text,
     flag |-> flag, existed |-> existed]

NoStoreCall == StoreCall(0, "none", None, None, None, FALSE, FALSE)

\* the call after the last one
NextCall(op, id, arg, text, flag) ==
    StoreCall(1 - last_call.seq, op, id, arg, text, flag,
              id \in DOMAIN character_map)

\* the entry of access_id a as dict.get gives it
Stored(map, a) == IF a \in DOMAIN map THEN map[a] ELSE None

\* the threads that call the registry (the workers of the server)
Threads == 1 .. MaxThreads

\* a thread at a CharacterStore method: where it is, the method and its
\* arguments, what the method read and is about to return (text, flag,
\* count, ids), whether it raised, and for get_character the entries its
\* access_id had from the call on
Thread(at, op, id, arg, text, flag, count, ids, raised, seen) ==
    [at |-> at, op |-> op, id |-> id, arg |-> arg, text |-> text,
     flag |-> flag, count |-> count, ids |-> ids, raised |-> raised,
     seen |-> seen]

IdleThread == Thread("idle", "none", None, None, None, FALSE, 0, {}, FALSE, {})

NoThreads == [t \in Threads |-> IdleThread]

\* a call of a pure function: its name, its arguments and its result (a
\* text or a flag); env is how what the function calls behaved and dict the
\* dict it returned, for a function that has them
FunctionCall(fn, arg1, arg2, arg3, text, flag) ==
    [fn |-> fn, arg1 |-> arg1, arg2 |-> arg2, arg3 |-> arg3, text |-> text,
     flag |-> flag, env |-> NoBackend, dict |-> NoResult, log |-> "none"]

NoFunctionCall == FunctionCall("none", None, None, FALSE, None, FALSE)

InitState ==
    /\ character_map = EmptyMap
    /\ client \in {"ready", "None"}
    /\ pc = "idle"
    /\ req = NoRequest
    /\ saved_character = None
    /\ filtered_content = << >>
    /\ final_prompt = << >>
    /\ dalle_result = NoResult
    /\ dalle_revised_prompt = << >>
    /\ refined_content_for_response = << >>
    /\ response = NoResponse
    /\ outcome = "pending"
    /\ calls = NoCalls
    /\ ev = NoEvents
    /\ stages = << >>
    /\ nresp = 0
    /\ nreq = 0
    /\ trail = NoTrail
    /\ last_call = NoStoreCall
    /\ lock = 0
    /\ threads = NoThreads
    /\ fcall = NoFunctionCall
    /\ nadmin = 0
    /\ nother = 0

\* the server is started: app.core.character_store has been imported
Init == InitState /\ singleton = Imported

\* the module app.core.character_store is about to run its line 148
ClassInit == InitState /\ singleton = ClassDefined

\* the step ends as k says
Apply(k) ==
    /\ pc' = k.pc
    /\ outcome' = k.outcome
    /\ response' = k.response
    /\ nresp' = IF k.outcome = "returned" THEN nresp + 1 ELSE nresp

\* the stage log: a stage that is run again at once is logged once
Entered(stage) ==
    IF stages # << >> /\ stages[Len(stages)] = stage THEN stages
    ELSE Append(stages, stage)

\* the call counters are counted up to MaxCalls
CanCall(name) == calls[name] < MaxCalls

Called(name) == [calls EXCEPT ![name] = @ + 1]

\* a request arrives: generate_image_api starts, lines 54-65
Receive ==
    /\ pc \in {"idle", "done"}
    /\ nreq < MaxRequests
    /\ \E a \in AccessIds, t \in SceneTexts, s \in BOOLEAN, c \in CharacterInputs :
           req' = ImageRequest(a, t, s, c)
    /\ pc' = "validate"
    /\ saved_character' = None
    /\ filtered_content' = << >>
    /\ final_prompt' = << >>
    /\ dalle_result' = NoResult
    /\ dalle_revised_prompt' = << >>
    /\ refined_content_for_response' = << >>
    /\ response' = NoResponse
    /\ outcome' = "pending"
    /\ calls' = NoCalls
    /\ ev' = NoEvents
    /\ stages' = << >>
    /\ nresp' = 0
    /\ nreq' = nreq + 1
    /\ UNCHANGED << character_map, client >>
    /\ UNCHANGED << trail, last_call, lock, threads, fcall, nadmin,
                    nother, singleton >>

\* mutant: the registry write of lines 86-91 made before the check of line 70
Validate_StoreFirst ==
    /\ pc = "validate"
    /\ Apply(IF IsEmptyPrompt(req.original_content)
             THEN Return(ValidationErrorResponse(req))
             ELSE Goto("store"))
    /\ stages' = Entered("Validate")
    /\ character_map' =
           IF CarriesCharacter(req)
           THEN set_character(character_map, req.access_id, req.access_id_character)
           ELSE character_map
    /\ UNCHANGED << client, req, saved_character, filtered_content,
                    final_prompt, dalle_result, dalle_revised_prompt,
                    refined_content_for_response, calls, ev, nreq >>
    /\ UNCHANGED << trail, last_call, lock, threads, fcall, nadmin,
                    nother, singleton >>

\* lines 70-81
Validate ==
    /\ pc = "validate"
    /\ Apply(IF IsEmptyPrompt(req.original_content)
             THEN Return(ValidationErrorResponse(req))
             ELSE Goto("store"))
    /\ stages' = Entered("Validate")
    /\ UNCHANGED << character_map, client, req, saved_character, filtered_content,
                    final_prompt, dalle_result, dalle_revised_prompt,
                    refined_content_for_response, calls, ev, nreq >>
    /\ UNCHANGED << trail, last_call, lock, threads, fcall, nadmin,
                    nother, singleton >>

\* lines 86-91
StoreCharacter ==
    /\ pc = "store"
    /\ character_map' =
           IF CarriesCharacter(req)
           THEN set_character(character_map, req.access_id, req.access_id_character)
           ELSE character_map
    /\ trail' =
           IF CarriesCharacter(req)
           THEN SetLogged(trail, character_map, req.access_id,
                          req.access_id_character, "generate")
           ELSE trail
    /\ last_call' =
           IF CarriesCharacter(req)
           THEN NextCall("set", req.access_id, req.access_id_character,
                         None, FALSE)
           ELSE last_call
    /\ calls' = IF CarriesCharacter(req) THEN Called("set_character")
               ELSE calls
    /\ Apply(Goto("lookup"))
    /\ stages' = Entered("ResolveCharacter")
    /\ UNCHANGED << client, req, saved_character, filtered_content,
                    final_prompt, dalle_result, dalle_revised_prompt,
                    refined_content_for_response, ev, nreq >>
    /\ UNCHANGED << lock, threads, fcall, nadmin,
                    nother, singleton >>

\* lines 94-104
LookupCharacter ==
    /\ pc = "lookup"
    /\ saved_character' = get_character(character_map, req.access_id)
    /\ last_call' = NextCall("get", req.access_id, None,
                             get_character(character_map, req.access_id),
                             FALSE)
    /\ calls' = Called("get_character")
    /\ Apply(Goto("purify"))
    /\ UNCHANGED << character_map, client, req, filtered_content,
                    final_prompt, dalle_result, dalle_revised_prompt,
                    refined_content_for_response, ev, stages, nreq >>
    /\ UNCHANGED << trail, lock, threads, fcall, nadmin,
                    nother, singleton >>

\* lines 133-136: is_slang is false
PurifySkip ==
    /\ pc = "purify"
    /\ ~req.is_slang
    /\ filtered_content' = Unpurified(req)
    /\ final_prompt' = Unpurified(req)
    /\ Apply(Goto("compose"))
    /\ UNCHANGED << character_map, client, req, saved_character,
                    dalle_result, dalle_revised_prompt,
                    refined_content_for_response, calls, ev, stages, nreq >>
    /\ UNCHANGED << trail, last_call, lock, threads, fcall, nadmin,
                    nother, singleton >>

\* lines 110-132: refine returns
PurifyRefine ==
    /\ pc = "purify"
    /\ req.is_slang
    /\ CanCall("refine")
    /\ \E m \in ModelBehaviours :
         LET purified_prompt == refine(req.original_content, m)
             k == PurifyResult(req, purified_prompt)
         IN  /\ Apply(k)
             /\ filtered_content' =
                    IF k.outcome = "pending" THEN purified_prompt ELSE filtered_content
             /\ final_prompt' =
                    IF k.outcome = "pending" THEN purified_prompt ELSE final_prompt
             /\ ev' = [ev EXCEPT
                         !.refine = IF m.kind = "raise" THEN "model_raised"
                                    ELSE "returned",
                         !.purified = purified_prompt]
    /\ calls' = Called("refine")
    /\ stages' = Entered("Purify")
    /\ UNCHANGED << character_map, client, req, saved_character,
                    dalle_result, dalle_revised_prompt,
                    refined_content_for_response, nreq >>
    /\ UNCHANGED << trail, last_call, lock, threads, fcall, nadmin,
                    nother, singleton >>

\* lines 138-152: the call of refine raises (its print at purifier.py line 61
\* is outside its try)
PurifyRaises ==
    /\ pc = "purify"
    /\ req.is_slang
    /\ CanCall("refine")
    /\ Apply(PurifyExcept(req))
    /\ ev' = [ev EXCEPT !.refine = "call_raised"]
    /\ calls' = Called("refine")
    /\ stages' = Entered("Purify")
    /\ UNCHANGED << character_map, client, req, saved_character, filtered_content,
                    final_prompt, dalle_result, dalle_revised_prompt,
                    refined_content_for_response, nreq >>
    /\ UNCHANGED << trail, last_call, lock, threads, fcall, nadmin,
                    nother, singleton >>

\* lines 157-196: both branches pass saved_character when it is truthy and
\* None otherwise
ComposePrompt ==
    /\ pc = "compose"
    /\ final_prompt' =
           build_webtoon_prompt(IF Truthy(saved_character) THEN saved_character
                                ELSE None,
                                final_prompt, TRUE)
    /\ Apply(Goto("generate"))
    /\ ev' = [ev EXCEPT !.compose = "returned"]
    /\ stages' = Entered("ComposePrompt")
    /\ UNCHANGED << character_map, client, req, saved_character, filtered_content,
                    dalle_result, dalle_revised_prompt,
                    refined_content_for_response, calls, nreq >>
    /\ UNCHANGED << trail, last_call, lock, threads, fcall, nadmin,
                    nother, singleton >>

\* lines 157-196 raise (log_prompt_construction prints to the console): no
\* handler of the stage, the outermost except answers
ComposeRaises ==
    /\ pc = "compose"
    /\ Apply(OuterExcept(req, filtered_content))
    /\ ev' = [ev EXCEPT !.compose = "raised"]
    /\ stages' = Entered("ComposePrompt")
    /\ UNCHANGED << character_map, client, req, saved_character, filtered_content,
                    final_prompt, dalle_result, dalle_revised_prompt,
                    refined_content_for_response, calls, nreq >>
    /\ UNCHANGED << trail, last_call, lock, threads, fcall, nadmin,
                    nother, singleton >>

\* lines 201-209: generate_image returns; the backend is called only past the
\* checks of the client, the prompt and the model name
GenerateCall ==
    /\ pc = "generate"
    /\ CanCall("generate_image")
    /\ \E b \in BackendBehaviours :
         /\ dalle_result' = generate_image(client, IMAGE_MODEL, final_prompt, b)
         /\ ev' = [ev EXCEPT
                     !.generate = "returned",
                     !.backend = IF client = "None" \/ ~NotBlank(final_prompt)
                                 THEN NoBackend ELSE b]
    /\ Apply(Goto("classify"))
    /\ calls' = Called("generate_image")
    /\ stages' = Entered("Generate")
    /\ UNCHANGED << character_map, client, req, saved_character, filtered_content,
                    final_prompt, dalle_revised_prompt,
                    refined_content_for_response, nreq >>
    /\ UNCHANGED << trail, last_call, lock, threads, fcall, nadmin,
                    nother, singleton >>

\* lines 227-241: the call of generate_image raises
GenerateRaises ==
    /\ pc = "generate"
    /\ CanCall("generate_image")
    /\ Apply(GenerateExcept(req, filtered_content))
    /\ ev' = [ev EXCEPT !.generate = "raised"]
    /\ calls' = Called("generate_image")
    /\ stages' = Entered("Generate")
    /\ UNCHANGED << character_map, client, req, saved_character, filtered_content,
                    final_prompt, dalle_result, dalle_revised_prompt,
                    refined_content_for_response, nreq >>
    /\ UNCHANGED << trail, last_call, lock, threads, fcall, nadmin,
                    nother, singleton >>

\* lines 246-280
Classify ==
    /\ pc = "classify"
    /\ Apply(ClassifyResult(req, filtered_content, dalle_result))
    /\ stages' = Entered("ClassifyResult")
    /\ UNCHANGED << character_map, client, req, saved_character, filtered_content,
                    final_prompt, dalle_result, dalle_revised_prompt,
                    refined_content_for_response, calls, ev, nreq >>
    /\ UNCHANGED << trail, last_call, lock, threads, fcall, nadmin,
                    nother, singleton >>

\* line 288: dalle_result.get("refined_content") or ""
RevisedText(result) ==
    IF Truthy(result.refined_content) THEN result.refined_content ELSE << >>

\* lines 307-308: no revised text to translate
TranslateSkip ==
    /\ pc = "translate"
    /\ ~NotBlank(RevisedText(dalle_result))
    /\ dalle_revised_prompt' = filtered_content
    /\ Apply(Goto("localize"))
    /\ ev' = [ev EXCEPT !.translate = "skipped"]
    /\ stages' = Entered("Localize")
    /\ UNCHANGED << character_map, client, req, saved_character, filtered_content,
                    final_prompt, dalle_result,
                    refined_content_for_response, calls, nreq >>
    /\ UNCHANGED << trail, last_call, lock, threads, fcall, nadmin,
                    nother, singleton >>

\* lines 289-299: translate_to_korean returns
TranslateCall ==
    /\ pc = "translate"
    /\ NotBlank(RevisedText(dalle_result))
    /\ CanCall("translate_to_korean")
    /\ \E h \in TranslateBehaviours :
           /\ dalle_revised_prompt' =
                  translate_to_korean(RevisedText(dalle_result), h)
           /\ ev' = [ev EXCEPT !.translate = "returned", !.http = h]
    /\ Apply(Goto("localize"))
    /\ calls' = Called("translate_to_korean")
    /\ stages' = Entered("Localize")
    /\ UNCHANGED << character_map, client, req, saved_character, filtered_content,
                    final_prompt, dalle_result,
                    refined_content_for_response, nreq >>
    /\ UNCHANGED << trail, last_call, lock, threads, fcall, nadmin,
                    nother, singleton >>

\* lines 300-306: the call of translate_to_korean raises
TranslateRaises ==
    /\ pc = "translate"
    /\ NotBlank(RevisedText(dalle_result))
    /\ CanCall("translate_to_korean")
    /\ LET k == TranslateExcept(req, filtered_content)
       IN  /\ Apply(k)
           /\ dalle_revised_prompt' = k.text
    /\ ev' = [ev EXCEPT !.translate = "raised"]
    /\ calls' = Called("translate_to_korean")
    /\ stages' = Entered("Localize")
    /\ UNCHANGED << character_map, client, req, saved_character, filtered_content,
                    final_prompt, dalle_result,
                    refined_content_for_response, nreq >>
    /\ UNCHANGED << trail, last_call, lock, threads, fcall, nadmin,
                    nother, singleton >>

\* lines 321-336: compose_korean_scene returns
LocalizeCall ==
    /\ pc = "localize"
    /\ CanCall("ko_to_ko_translate")
    /\ \E h \in KoBehaviours :
           refined_content_for_response' =
               compose_korean_scene(saved_character, filtered_content, h)
    /\ Apply(Goto("respond"))
    /\ ev' = [ev EXCEPT !.localize = "returned"]
    /\ calls' = Called("ko_to_ko_translate")
    /\ UNCHANGED << character_map, client, req, saved_character, filtered_content,
                    final_prompt, dalle_result, dalle_revised_prompt,
                    stages, nreq >>
    /\ UNCHANGED << trail, last_call, lock, threads, fcall, nadmin,
                    nother, singleton >>

\* lines 338-343: the call of compose_korean_scene raises, before or after
\* its call of ko_to_ko_translate
LocalizeRaises ==
    /\ pc = "localize"
    /\ CanCall("ko_to_ko_translate")
    /\ LET k == LocalizeExcept(req, filtered_content)
       IN  /\ Apply(k)
           /\ refined_content_for_response' = k.text
    /\ ev' = [ev EXCEPT !.localize = "raised"]
    /\ \E called \in BOOLEAN :
           calls' = IF called THEN Called("ko_to_ko_translate") ELSE calls
    /\ UNCHANGED << character_map, client, req, saved_character, filtered_content,
                    final_prompt, dalle_result, dalle_revised_prompt,
                    stages, nreq >>
    /\ UNCHANGED << trail, last_call, lock, threads, fcall, nadmin,
                    nother, singleton >>

\* lines 348-357
Respond ==
    /\ pc = "respond"
    /\ Apply(Return(SuccessResponse(req, filtered_content,
                                    refined_content_for_response,
                                    dalle_revised_prompt, dalle_result)))
    /\ stages' = Entered("Respond")
    /\ UNCHANGED << character_map, client, req, saved_character, filtered_content,
                    final_prompt, dalle_result, dalle_revised_prompt,
                    refined_content_for_response, calls, ev, nreq >>
    /\ UNCHANGED << trail, last_call, lock, threads, fcall, nadmin,
                    nother, singleton >>

\* one step of the handler
HandlerStep ==
    \/ Validate
    \/ StoreCharacter
    \/ LookupCharacter
    \/ PurifySkip
    \/ PurifyRefine
    \/ PurifyRaises
    \/ ComposePrompt
    \/ ComposeRaises
    \/ GenerateCall
    \/ GenerateRaises
    \/ Classify
    \/ TranslateSkip
    \/ TranslateCall
    \/ TranslateRaises
    \/ LocalizeCall
    \/ LocalizeRaises
    \/ Respond

Next == Receive \/ HandlerStep

Spec == Init /\ [][Next]_vars

\* every call returns or raises, so a handler that can take a step takes one
FairSpec == Spec /\ WF_vars(HandlerStep)

-----------------------------------------------------------------------------
(* The registry on its own: any caller of the CharacterStore methods, one
   call after another (app/core/character_store.py) *)

\* access_ids a caller may pass: those of the owners, "" and " "
StoreIds == AccessIds \cup { << >>, << " " >> }

\* descriptions a caller may pass
StoreDescriptions == { << >>, << " " >>, << " ", "c" >>, << "d", " " >> }

\* lines 36-57
CallSetCharacter ==
    \E a \in StoreIds, d \in StoreDescriptions :
        /\ character_map' = set_character(character_map, a, d)
        /\ trail' = SetLogged(trail, character_map, a, d, "direct")
        /\ last_call' = NextCall("set", a, d, None, FALSE)
        /\ UNCHANGED << client, handler_vars, lock_vars, fcall, nadmin,
                    nother, singleton >>

\* lines 59-76
CallGetCharacter ==
    \E a \in StoreIds :
        /\ last_call' = NextCall("get", a, None,
                                 get_character(character_map, a), FALSE)
        /\ UNCHANGED << character_map, trail, client, handler_vars,
                        lock_vars, fcall, nadmin,
                    nother, singleton >>

\* lines 78-92
CallHasCharacter ==
    \E a \in StoreIds :
        /\ last_call' = NextCall("has", a, None, None,
                                 has_character(character_map, a))
        /\ UNCHANGED << character_map, trail, client, handler_vars,
                        lock_vars, fcall, nadmin,
                    nother, singleton >>

\* lines 94-112
CallRemoveCharacter ==
    \E a \in StoreIds :
        /\ character_map' = remove_character(character_map, a)
        /\ trail' = RemoveLogged(trail, character_map, a, "direct",
                                 remove_character_result(character_map, a))
        /\ last_call' = NextCall("remove", a, None, None,
                                 remove_character_result(character_map, a))
        /\ UNCHANGED << client, handler_vars, lock_vars, fcall, nadmin,
                    nother, singleton >>

\* lines 124-131
CallClearAll ==
    /\ character_map' = clear_all(character_map)
    /\ trail' = ClearLogged(trail, character_map, "direct")
    /\ last_call' = NextCall("clear", None, None, None, FALSE)
    /\ UNCHANGED << client, handler_vars, lock_vars, fcall, nadmin,
                    nother, singleton >>

RegistryNext ==
    \/ CallSetCharacter
    \/ CallGetCharacter
    \/ CallHasCharacter
    \/ CallRemoveCharacter
    \/ CallClearAll

RegistrySpec == Init /\ [][RegistryNext]_vars

-----------------------------------------------------------------------------
(* Claims C1 - C10: the responses of generate_image_api *)

PolicyResult(result) == result.error_message = << POLICY_TOKEN >>

\* the outcome a response stands for, read off its error_message
ResponseKind(resp) ==
    IF resp.error_message = None THEN "Success"
    ELSE IF resp.error_message = MSG_EMPTY_PROMPT THEN "ValidationError"
    ELSE IF resp.error_message = MSG_PURIFY_ERROR THEN "PurificationError"
    ELSE IF resp.error_message = MSG_TRANSPORT_ERROR THEN "GenerationTransportError"
    ELSE IF resp.error_message = MSG_POLICY THEN "PolicyRejected"
    ELSE IF resp.error_message = MSG_INTERNAL THEN "UnexpectedError"
    ELSE IF Len(resp.error_message) >= 1
            /\ SubSeq(resp.error_message, 1, 1) = MSG_FAILED_PREFIX
         THEN "GenerationServiceError"
    ELSE "other"

OutcomeKinds ==
    { "ValidationError", "PurificationError", "GenerationTransportError",
      "GenerationServiceError", "PolicyRejected", "UnexpectedError", "Success" }

\* C1: every response returned has image_url non-null if and only if
\* error_message is null, and a response without image URL carries a
\* non-empty error_message.
C1_UrlIffNoError ==
    outcome = "returned" =>
        /\ (response.image_url # None <=> response.error_message = None)
        /\ (response.image_url = None => Truthy(response.error_message))

C1_Witness ==
    /\ outcome = "returned"
    /\ response.image_url = IMAGE_URL
    /\ response.error_message = None

\* C2: no exception leaves generate_image_api: the handler ends only by
\* returning a response, whichever call raised, and an exception that no
\* handler of a stage catches (the prompt composition raising) yields the
\* generic response: no image URL and the internal-error message.
C2_NoExceptionEscapes ==
    /\ outcome # "escaped"
    /\ (pc = "done" => outcome = "returned")
    /\ (ev.refine = "call_raised" \/ ev.generate = "raised" => outcome = "returned")
    /\ (ev.compose = "raised" =>
            /\ outcome = "returned"
            /\ response.image_url = None
            /\ response.error_message = MSG_INTERNAL)

C2_Witness ==
    /\ ev.compose = "raised"
    /\ outcome = "returned"
    /\ response.error_message = MSG_INTERNAL

\* C3: when every capability call returns or raises, every invocation ends,
\* and it ends with exactly one response, of one of the seven outcomes.
C3_TerminatesWithOneResponse ==
    /\ (pc = "validate") ~> (pc = "done")
    /\ [](nresp <= 1)
    /\ [](pc = "done" =>
            /\ nresp = 1
            /\ outcome = "returned"
            /\ ResponseKind(response) \in OutcomeKinds)

C3_Witness ==
    /\ pc = "done"
    /\ nresp = 1
    /\ nreq = MaxRequests
    /\ stages = << "Validate", "ResolveCharacter", "Purify", "ComposePrompt",
                   "Generate", "ClassifyResult", "Localize", "Respond" >>

\* C4: a request whose original_content is empty or whitespace-only, whatever
\* its other fields, ends at Validate with no image URL and the empty-prompt
\* message.
C4_EmptyPromptRejected ==
    ~NotBlank(req.original_content) /\ pc \notin {"idle", "validate"} =>
        /\ pc = "done"
        /\ outcome = "returned"
        /\ stages = << "Validate" >>
        /\ response.image_url = None
        /\ response.error_message = MSG_EMPTY_PROMPT

C4_Witness ==
    /\ outcome = "returned"
    /\ req.original_content = << " " >>
    /\ req.is_slang
    /\ req.access_id_character = << " ", "c" >>
    /\ response.error_message = MSG_EMPTY_PROMPT

\* C5: a backend BadRequestError whose text contains the policy token makes
\* generate_image report content_policy_violation, and on that report the
\* response has no image URL, the policy message, and refined_content equal
\* to the filtered scene text; the classification answers so also for a
\* report that carries a revised text or an image URL beside the token.
C5_PolicyRejection ==
    /\ (pc = "classify" =>
            \A url \in {None, IMAGE_URL}, revised \in {None, << "r" >>} :
                ClassifyResult(req, filtered_content,
                               DalleDict(url, revised, << POLICY_TOKEN >>))
                = Return(ImageResponse(req, filtered_content, filtered_content,
                                       << >>, None, MSG_POLICY)))
    /\ (/\ ev.generate = "returned"
        /\ ev.backend.kind = "BadRequestError"
        /\ Contains(ev.backend.msg, POLICY_TOKEN)
        => PolicyResult(dalle_result))
    /\ (outcome = "returned" /\ PolicyResult(dalle_result) =>
            /\ response.image_url = None
            /\ response.error_message = MSG_POLICY
            /\ response.refined_content = filtered_content
            /\ response.filtered_content = filtered_content)

C5_Witness ==
    /\ outcome = "returned"
    /\ PolicyResult(dalle_result)
    /\ ev.backend.kind = "BadRequestError"
    /\ NotBlank(filtered_content)
    /\ response.error_message = MSG_POLICY


\* the response of the purification error, lines 119-128 and 143-152
IsPurificationError(r, resp) ==
    /\ resp.image_url = None
    /\ resp.error_message = MSG_PURIFY_ERROR
    /\ resp.original_content = r.original_content

\* refine returned an empty or blank text
BlankPurified ==
    ev.refine \in {"returned", "model_raised"} /\ ~NotBlank(ev.purified)

\* C6 as stated: with is_slang, when the model inference raises or the
\* purifier yields an empty or blank text, the request ends in the
\* purification-error response and generate_image is not called.
C6_AsStated ==
    req.is_slang /\ (ev.refine = "model_raised" \/ BlankPurified) =>
        /\ pc = "done"
        /\ outcome = "returned"
        /\ IsPurificationError(req, response)
        /\ calls.generate_image = 0

\* C6 as amended: with is_slang, when the call of refine raises or refine
\* yields an empty or blank text, the request ends in the purification-error
\* response and generate_image is not called; when the model inference raises
\* inside refine, refine returns the scene text unchanged and the request goes
\* on with filtered_content equal to original_content.
C6_PurificationError ==
    /\ (req.is_slang /\ (ev.refine = "call_raised" \/ BlankPurified) =>
            /\ pc = "done"
            /\ outcome = "returned"
            /\ IsPurificationError(req, response)
            /\ calls.generate_image = 0)
    /\ (req.is_slang /\ ev.refine = "model_raised" =>
            /\ ev.purified = req.original_content
            /\ filtered_content = req.original_content
            /\ (pc = "done" => ~IsPurificationError(req, response)))

C6_Witness ==
    /\ req.is_slang
    /\ ev.refine = "returned"
    /\ ev.purified = << " " >>
    /\ outcome = "returned"
    /\ response.error_message = MSG_PURIFY_ERROR

\* C7: when the call of generate_image raises, the request ends in the
\* transport-error response: no image URL, the transport message,
\* filtered_content equal to the filtered scene text; no translation is
\* attempted.
C7_TransportError ==
    ev.generate = "raised" =>
        /\ pc = "done"
        /\ outcome = "returned"
        /\ response.image_url = None
        /\ response.error_message = MSG_TRANSPORT_ERROR
        /\ response.filtered_content = filtered_content
        /\ calls.translate_to_korean = 0
        /\ calls.ko_to_ko_translate = 0
        /\ ev.translate = "none"
        /\ ev.localize = "none"

C7_Witness ==
    /\ ev.generate = "raised"
    /\ req.is_slang
    /\ NotBlank(filtered_content)
    /\ response.error_message = MSG_TRANSPORT_ERROR

\* C8: when generate_image returns no image URL and no policy rejection, the
\* request ends in the service-error response: no image URL and the failure
\* prefix followed by the capability's detail (the unknown-error text when
\* there is none, a case generate_image never produces and the
\* classification is asked about directly).
C8_ServiceError ==
    /\ (/\ ev.generate = "returned"
        /\ dalle_result.image_url = None
        /\ ~PolicyResult(dalle_result)
        /\ pc # "classify"
        =>
        /\ pc = "done"
        /\ outcome = "returned"
        /\ response.image_url = None
        /\ response.error_message = MSG_FAILED_PREFIX \o dalle_result.error_message)
    /\ (pc = "classify" =>
            \A detail \in {None, << >>} :
                LET k == ClassifyResult(req, filtered_content,
                                        DalleDict(None, None, detail))
                IN  /\ k.outcome = "returned"
                    /\ k.response.image_url = None
                    /\ k.response.error_message = MSG_FAILED_PREFIX \o MSG_UNKNOWN)

C8_Witness ==
    /\ outcome = "returned"
    /\ ev.backend.kind = "RateLimitError"
    /\ dalle_result.image_url = None
    /\ ResponseKind(response) = "GenerationServiceError"

\* C9: once generate_image has returned an image URL and no policy
\* rejection, the request ends in Success (the image URL, no error_message),
\* whatever translate_to_korean and ko_to_ko_translate do, raising included.
C9_TranslationNeverTerminal ==
    /\ ev.generate = "returned"
    /\ dalle_result.image_url # None
    /\ ~PolicyResult(dalle_result)
    /\ pc = "done"
    =>
    /\ outcome = "returned"
    /\ response.image_url = dalle_result.image_url
    /\ response.error_message = None

C9_Witness ==
    /\ pc = "done"
    /\ ev.translate = "raised"
    /\ ev.localize = "raised"
    /\ response.image_url # None
    /\ response.error_message = None

\* C10: within one invocation each of refine, generate_image,
\* translate_to_korean and ko_to_ko_translate is called at most once, also
\* after it failed.
C10_NoRetry ==
    \A name \in DOMAIN calls : calls[name] <= 1

C10_Witness ==
    /\ pc = "done"
    /\ ev.refine = "call_raised"
    /\ calls.refine = 1

-----------------------------------------------------------------------------
(* The registry under concurrent callers: every method of CharacterStore
   step by step, with the lock it takes (app/core/character_store.py) *)

\* access_ids and descriptions the concurrent callers pass
LockIds == { << "u" >>, << " " >> }
LockDescriptions == { << "c" >>, << "d", " " >> }

StoreMethods == { "set", "get", "has", "remove", "ids", "clear", "stats" }

\* an acquire that never waits
CanAcquire_NoWait(owner, t) == TRUE

\* threading.RLock: free, or held by the thread that asks
CanAcquire(owner, t) == owner = 0 \/ owner = t

\* the threads after the map became map2: a get_character that has not read
\* yet may see the new entry
Witnessed(thr, map2) ==
    [u \in DOMAIN thr |->
        IF thr[u].op = "get" /\ thr[u].at \in {"called", "waiting", "held"}
        THEN [thr[u] EXCEPT !.seen = @ \cup { Stored(map2, thr[u].id) }]
        ELSE thr[u]]

\* a thread calls a method
ThreadCall(t) ==
    /\ threads[t].at = "idle"
    /\ \E op \in StoreMethods, a \in LockIds, d \in LockDescriptions :
           threads' = [threads EXCEPT ![t] =
               Thread("called", op,
                      IF op \in {"ids", "clear", "stats"} THEN None ELSE a,
                      IF op = "set" THEN d ELSE None,
                      None, FALSE, 0, {}, FALSE,
                      IF op = "get" THEN { Stored(character_map, a) } ELSE {})]
    /\ UNCHANGED << character_map, lock, client, handler_vars, registry_log,
                    fcall, nadmin,
                    nother, singleton >>

\* the checks of the arguments before the lock: lines 48-54, 69-70, 88-89,
\* 104-105; a call they reject returns at once
ThreadCheck(t) ==
    /\ threads[t].at = "called"
    /\ LET th == threads[t]
           rejected ==
               \/ th.op = "set" /\ (~NotBlank(th.id) \/ ~NotBlank(th.arg))
               \/ th.op = "get" /\ ~NotBlank(th.id)
               \/ th.op \in {"has", "remove"} /\ ~Truthy(th.id)
       IN  threads' = [threads EXCEPT ![t] =
               IF rejected THEN IdleThread
               ELSE [th EXCEPT !.at = "waiting"]]
    /\ UNCHANGED << character_map, lock, client, handler_vars, registry_log,
                    fcall, nadmin,
                    nother, singleton >>

\* "with self._access_lock:" is entered
ThreadAcquire(t) ==
    /\ threads[t].at = "waiting"
    /\ CanAcquire(lock, t)
    /\ lock' = t
    /\ threads' = [threads EXCEPT ![t].at = "held"]
    /\ UNCHANGED << character_map, client, handler_vars, registry_log,
                    fcall, nadmin,
                    nother, singleton >>

\* the first statement inside the lock: lines 56, 72, 92, 108, 122, 128, 138
ThreadAccess(t) ==
    /\ threads[t].at = "held"
    /\ LET th == threads[t]
           map2 == IF th.op = "set"
                   THEN set_character(character_map, th.id, th.arg)
                   ELSE character_map
           th2 ==
               CASE th.op = "set" -> [th EXCEPT !.at = "leaving"]
                 [] th.op = "get" ->
                        [th EXCEPT !.at = "leaving",
                                   !.text = Stored(character_map, th.id)]
                 [] th.op = "has" ->
                        [th EXCEPT !.at = "leaving",
                                   !.flag = th.id \in DOMAIN character_map]
                 [] th.op = "remove" ->
                        IF th.id \in DOMAIN character_map
                        THEN [th EXCEPT !.at = "held2"]
                        ELSE [th EXCEPT !.at = "leaving", !.flag = FALSE]
                 [] th.op = "ids" ->
                        [th EXCEPT !.at = "leaving",
                                   !.ids = get_all_access_ids(character_map)]
                 [] th.op \in {"clear", "stats"} ->
                        [th EXCEPT !.at = "held2",
                                   !.count = Cardinality(DOMAIN character_map)]
       IN  /\ character_map' = map2
           /\ threads' = [Witnessed(threads, map2) EXCEPT ![t] = th2]
    /\ UNCHANGED << lock, client, handler_vars, registry_log, fcall, nadmin,
                    nother, singleton >>

\* the second statement inside the lock: lines 109, 129, 139; "del" of a key
\* that is gone raises KeyError
ThreadAccess2(t) ==
    /\ threads[t].at = "held2"
    /\ LET th == threads[t]
           map2 ==
               CASE th.op = "remove" -> remove_character(character_map, th.id)
                 [] th.op = "clear" -> clear_all(character_map)
                 [] th.op = "stats" -> character_map
           th2 ==
               CASE th.op = "remove" ->
                        IF th.id \in DOMAIN character_map
                        THEN [th EXCEPT !.at = "leaving", !.flag = TRUE]
                        ELSE [th EXCEPT !.at = "leaving", !.raised = TRUE]
                 [] th.op = "clear" -> [th EXCEPT !.at = "leaving"]
                 [] th.op = "stats" ->
                        [th EXCEPT !.at = "leaving",
                                   !.ids = DOMAIN character_map]
       IN  /\ character_map' = map2
           /\ threads' = [Witnessed(threads, map2) EXCEPT ![t] = th2]
    /\ UNCHANGED << lock, client, handler_vars, registry_log, fcall, nadmin,
                    nother, singleton >>

\* the "with" block is left: the lock is released and the method returns
ThreadRelease(t) ==
    /\ threads[t].at = "leaving"
    /\ lock' = IF lock = t THEN 0 ELSE lock
    /\ threads' = [threads EXCEPT ![t] = IdleThread]
    /\ UNCHANGED << character_map, client, handler_vars, registry_log,
                    fcall, nadmin,
                    nother, singleton >>

LockNext ==
    \E t \in Threads :
        \/ ThreadCall(t)
        \/ ThreadCheck(t)
        \/ ThreadAcquire(t)
        \/ ThreadAccess(t)
        \/ ThreadAccess2(t)
        \/ ThreadRelease(t)

LockSpec == Init /\ [][LockNext]_vars

-----------------------------------------------------------------------------
(* A generation request on its worker thread, its two registry calls taken
   step by step with the lock, beside the registry calls of the other
   requests (app/api/v1/api_image.py 86-104, app/core/character_store.py
   36-76) *)

\* the thread that serves the request that is followed
Worker == 1

\* the access_id and the descriptions the other requests carry
OtherIds == { << "u" >> }
OtherDescriptions == { << "e", " " >> }

\* the lock when thread t leaves its "with" block, but never released
Released_Kept(owner, t) == owner

\* the lock when thread t leaves its "with" block
Released(owner, t) == IF owner = t THEN 0 ELSE owner

\* line 86: the request carries no description
WorkerStoreSkip ==
    /\ pc = "store"
    /\ ~CarriesCharacter(req)
    /\ Apply(Goto("lookup"))
    /\ stages' = Entered("ResolveCharacter")
    /\ UNCHANGED << character_map, client, req, saved_character,
                    filtered_content, final_prompt, dalle_result,
                    dalle_revised_prompt, refined_content_for_response,
                    calls, ev, nreq >>
    /\ UNCHANGED << trail, last_call, lock, threads, fcall, nadmin, nother, singleton >>

\* lines 86-87: set_character is called
WorkerStoreCall ==
    /\ pc = "store"
    /\ CarriesCharacter(req)
    /\ threads[Worker].at = "idle"
    /\ threads' = [threads EXCEPT ![Worker] =
           Thread("called", "set", req.access_id, req.access_id_character,
                  None, FALSE, 0, {}, FALSE, {})]
    /\ Apply(Goto("store_call"))
    /\ stages' = Entered("ResolveCharacter")
    /\ UNCHANGED << character_map, client, req, saved_character,
                    filtered_content, final_prompt, dalle_result,
                    dalle_revised_prompt, refined_content_for_response,
                    calls, ev, nreq >>
    /\ UNCHANGED << trail, last_call, lock, fcall, nadmin, nother, singleton >>

\* set_character returns to line 88
WorkerStoreReturn ==
    /\ pc = "store_call"
    /\ threads[Worker].at = "leaving"
    /\ lock' = Released(lock, Worker)
    /\ threads' = [threads EXCEPT ![Worker] = IdleThread]
    /\ calls' = Called("set_character")
    /\ Apply(Goto("lookup"))
    /\ UNCHANGED << character_map, client, req, saved_character,
                    filtered_content, final_prompt, dalle_result,
                    dalle_revised_prompt, refined_content_for_response,
                    ev, stages, nreq >>
    /\ UNCHANGED << trail, last_call, fcall, nadmin, nother, singleton >>

\* line 94: get_character is called
WorkerLookupCall ==
    /\ pc = "lookup"
    /\ threads[Worker].at = "idle"
    /\ threads' = [threads EXCEPT ![Worker] =
           Thread("called", "get", req.access_id, None, None, FALSE, 0, {},
                  FALSE, { Stored(character_map, req.access_id) })]
    /\ Apply(Goto("lookup_call"))
    /\ UNCHANGED << character_map, client, req, saved_character,
                    filtered_content, final_prompt, dalle_result,
                    dalle_revised_prompt, refined_content_for_response,
                    calls, ev, stages, nreq >>
    /\ UNCHANGED << trail, last_call, lock, fcall, nadmin, nother, singleton >>

\* lines 94-104: get_character returns
WorkerLookupReturn ==
    /\ pc = "lookup_call"
    /\ threads[Worker].at = "leaving"
    /\ saved_character' = threads[Worker].text
    /\ lock' = Released(lock, Worker)
    /\ threads' = [threads EXCEPT ![Worker] = IdleThread]
    /\ calls' = Called("get_character")
    /\ Apply(Goto("purify"))
    /\ UNCHANGED << character_map, client, req, filtered_content,
                    final_prompt, dalle_result, dalle_revised_prompt,
                    refined_content_for_response, ev, stages, nreq >>
    /\ UNCHANGED << trail, last_call, fcall, nadmin, nother, singleton >>

\* lines 86-87, 94 in another request: its set_character or get_character
\* is called
OtherCall(t) ==
    /\ threads[t].at = "idle"
    /\ \E op \in {"set", "get"}, a \in OtherIds, d \in OtherDescriptions :
           threads' = [threads EXCEPT ![t] =
               Thread("called", op, a, IF op = "set" THEN d ELSE None,
                      None, FALSE, 0, {}, FALSE,
                      IF op = "get" THEN { Stored(character_map, a) } ELSE {})]
    /\ UNCHANGED << character_map, lock, client, handler_vars, registry_log,
                    fcall, nadmin, nother, singleton >>

WorkerNext ==
    \/ Receive
    \/ Validate
    \/ WorkerStoreSkip
    \/ WorkerStoreCall
    \/ WorkerStoreReturn
    \/ WorkerLookupCall
    \/ WorkerLookupReturn
    \/ PurifySkip
    \/ PurifyRefine
    \/ PurifyRaises
    \/ ComposePrompt
    \/ ComposeRaises
    \/ GenerateCall
    \/ GenerateRaises
    \/ Classify
    \/ TranslateSkip
    \/ TranslateCall
    \/ TranslateRaises
    \/ LocalizeCall
    \/ LocalizeRaises
    \/ Respond
    \/ \E t \in Threads :
           \/ ThreadCheck(t)
           \/ ThreadAcquire(t)
           \/ ThreadAccess(t)
    \/ \E t \in Threads \ { Worker } :
           \/ OtherCall(t)
           \/ ThreadRelease(t)

WorkerSpec == Init /\ [][WorkerNext]_vars

-----------------------------------------------------------------------------
(* The pure functions on their own: any caller, any arguments
   (app/service/prompt_builder.py, app/service/post_processor.py) *)

\* n tokens of text
Filler(n) == [i \in 1 .. n |-> "a"]

\* arguments of build_webtoon_prompt
PromptCharacters ==
    { None, << >>, << " " >>, << " ", "c" >>, << "c", " ", "d", " " >> }
PromptScenes == { << >>, << " " >>, << "a" >>, << " ", "b", "." >> }

\* arguments of is_over_modified: texts of the lengths at which the ratio
\* meets and passes 0.5 and 1.7, with and without whitespace around them
OriginalTexts ==
    { Filler(n) : n \in {0, 2, 4, 10} }
        \cup { << " " >>, << " " >> \o Filler(2) \o << " " >> }
PurifiedTexts ==
    { Filler(n) : n \in {0, 1, 2, 3, 4, 5, 6, 7, 16, 17, 18} }
        \cup { << " " >> \o Filler(1), Filler(17) \o << " ", " " >> }

\* arguments of check_meaning_preservation
OriginalSentences ==
    { << >>, << ".", " " >>,
      << "a", " ", "b", " ", "c", " ", "d", " ", "e" >>,
      << "a", ",", "b", ".", "c", " ", " ", "d", " ", "e", "." >>,
      << "a", " ", "a", " ", "b" >>,
      << "a", "b", " ", "a" >> }
PurifiedSentences ==
    { << >>, << "a" >>, << "a", " ", "b" >>, << "b", ",", "a", ".", "f" >>,
      << "c", " ", "b", " ", "a" >>, << "a", "b" >>, << "f" >> }

\* lines 120-160
CallBuildWebtoonPrompt ==
    \E c \in PromptCharacters, sc \in PromptScenes, st \in BOOLEAN :
        /\ fcall' = FunctionCall("build_webtoon_prompt", c, sc, st,
                                 build_webtoon_prompt(c, sc, st), FALSE)
        /\ UNCHANGED << character_map, client, handler_vars, registry_log,
                        lock_vars, nadmin, nother, singleton >>

\* lines 93-116
CallIsOverModified ==
    \E o \in OriginalTexts, p \in PurifiedTexts :
        /\ fcall' = FunctionCall("is_over_modified", o, p, FALSE, None,
                                 is_over_modified(o, p))
        /\ UNCHANGED << character_map, client, handler_vars, registry_log,
                        lock_vars, nadmin, nother, singleton >>

\* lines 119-145
CallCheckMeaningPreservation ==
    \E o \in OriginalSentences, p \in PurifiedSentences :
        /\ fcall' = FunctionCall("check_meaning_preservation", o, p, FALSE,
                                 None, check_meaning_preservation(o, p))
        /\ UNCHANGED << character_map, client, handler_vars, registry_log,
                        lock_vars, nadmin, nother, singleton >>

\* arguments of post_process: originals that are whitelist entries, one
\* with whitespace around an entry, one that is no entry
PostOriginals ==
    { << "jo", "a" >>, << "sin", "na" >>, << "sa", "rang", "hae" >>,
      << " ", "jo", "a", " " >>, << "a", " ", "b" >> }
PostPurified ==
    { << >>, << "jo", "a" >>, << "jo", "a", "." >>, << " ", "jo", "a" >>,
      << "jo", "eun" >>, << "sa", "rang", "hae", " ", "yo" >>,
      << "b", " ", "a", " " >>, << "a", " ", "b", " ", "c" >>,
      << "a", "a", "a", "a", "a" >>, << "a", "<", "s", ">" >>,
      << "!", "?" >> }

\* lines 11-57
CallPostProcess ==
    \E o \in PostOriginals, p \in PostPurified :
        /\ fcall' = [FunctionCall("post_process", o, p, FALSE,
                                  post_process(o, p), FALSE)
                         EXCEPT !.log = post_process_fallback(o, p)]
        /\ UNCHANGED << character_map, client, handler_vars, registry_log,
                        lock_vars, nadmin, nother, singleton >>

\* texts for validate_output: empty, blank, one character, one character
\* between spaces, two characters, a character four and five times in a
\* row, no letter at all, each special token inside a text, parts of a
\* special token, ordinary texts
ValidatorTexts ==
    { << >>, << " ", " " >>, << "a" >>, << " ", "a", " " >>, << "a", "b" >>,
      << "a", "a", "a", "a", "b" >>, << "b", "a", "a", "a", "a", "a" >>,
      << "!", "!", "!", "!", "!", "a" >>, << "!", "?" >>, << "1", "0", "." >>,
      << "a", "<", "u", "n", "k", ">" >>, << "[", "P", "A", "D", "]", "a" >>,
      << "a", "[", "U", "N", "K", "]", "b" >>, << "<", "p", "a", "d", ">" >>,
      << "a", "<", "s", ">" >>, << "<", "/", "s", ">", "b" >>,
      << "<", "s", "a", ">" >>, << "u", "n", "k" >>,
      << "a", " ", "b", "." >>, << " ", "jo", "a", "!" >> }

\* post_processor.py lines 60-90
CallValidateOutput ==
    \E t \in ValidatorTexts :
        /\ fcall' = FunctionCall("validate_output", t, None, FALSE, None,
                                 validate_output(t))
        /\ UNCHANGED << character_map, client, handler_vars, registry_log,
                        lock_vars, nadmin, nother, singleton >>

\* texts for is_whitelisted: entries, entries with spaces around and
\* inside, two entries with a space between them and without, empty and
\* blank texts, an entry beside another word, texts that are no entries
WhitelistTexts ==
    { << "jo", "a" >>, << " ", "jo", " ", "a", " " >>,
      << "bo", "go", "sip", "eo" >>, << "bo", "go", " ", "sip", "eo" >>,
      << "jo", "a", " ", "sin", "na" >>, << "jo", "a", "sin", "na" >>,
      << "sa", "rang", "hae", " ", "mas", "iss", "eo" >>,
      << >>, << " " >>, << "jo", "a", " ", "x" >>, << "x" >>,
      << "jo" >>, << "a", " ", "b" >> }

\* post_processor.py lines 148-172
CallIsWhitelisted ==
    \E t \in WhitelistTexts :
        /\ fcall' = FunctionCall("is_whitelisted", t, None, FALSE, None,
                                 is_whitelisted(t))
        /\ UNCHANGED << character_map, client, handler_vars, registry_log,
                        lock_vars, nadmin, nother, singleton >>

\* arguments of generate_image
ImagePrompts == { << >>, << " " >>, << "p" >> }
ImageModels == { << >>, << " " >>, IMAGE_MODEL }

\* openai_image_service.py lines 22-260, with the module's client
\* initialised or None
CallGenerateImage ==
    \E cl \in {"ready", "None"}, models \in ImageModels,
       prompt \in ImagePrompts, b \in BackendBehaviours :
        /\ fcall' = [FunctionCall("generate_image", prompt, models,
                                  cl = "ready", None, FALSE)
                         EXCEPT !.env = b,
                                !.dict = generate_image(cl, models, prompt, b)]
        /\ UNCHANGED << character_map, client, handler_vars, registry_log,
                        lock_vars, nadmin, nother, singleton >>

FunctionNext ==
    \/ CallGenerateImage
    \/ CallIsWhitelisted
    \/ CallValidateOutput
    \/ CallBuildWebtoonPrompt
    \/ CallIsOverModified
    \/ CallCheckMeaningPreservation
    \/ CallPostProcess

FunctionSpec == Init /\ [][FunctionNext]_vars

-----------------------------------------------------------------------------
(* The management interface beside the generation path
   (app/api/v1/api_character.py) *)

\* descriptions a management request may carry
AdminDescriptions == { << " " >>, << "d", " " >> }

\* set_character_info: HTTP 400 for a blank description, else the store
\* is called
set_character_info ==
    /\ nadmin < MaxAdminRequests
    /\ \E a \in AccessIds, d \in AdminDescriptions :
        /\ character_map' =
               IF ~NotBlank(d) THEN character_map
               ELSE set_character(character_map, a, d)
        /\ trail' =
               IF ~NotBlank(d) THEN trail
               ELSE SetLogged(trail, character_map, a, d, "admin")
        /\ last_call' =
               IF ~NotBlank(d) THEN last_call
               ELSE NextCall("set", a, d, None, FALSE)
        /\ nadmin' = nadmin + 1
    /\ UNCHANGED << client, handler_vars, lock_vars, fcall, nother, singleton >>

\* delete_character_info: HTTP 404 when remove_character returns False
delete_character_info ==
    /\ nadmin < MaxAdminRequests
    /\ \E a \in AccessIds :
        /\ character_map' = remove_character(character_map, a)
        /\ trail' = RemoveLogged(trail, character_map, a, "admin",
                                 remove_character_result(character_map, a))
        /\ last_call' = NextCall("remove", a, None, None,
                                 remove_character_result(character_map, a))
        /\ nadmin' = nadmin + 1
    /\ UNCHANGED << client, handler_vars, lock_vars, fcall, nother, singleton >>

\* clear_all_characters
clear_all_characters ==
    /\ nadmin < MaxAdminRequests
    /\ character_map' = clear_all(character_map)
    /\ trail' = ClearLogged(trail, character_map, "admin")
    /\ last_call' = NextCall("clear", None, None, None, FALSE)
    /\ nadmin' = nadmin + 1
    /\ UNCHANGED << client, handler_vars, lock_vars, fcall, nother, singleton >>

AdminStep ==
    \/ set_character_info
    \/ delete_character_info
    \/ clear_all_characters

\* the generation path with management requests arriving at any moment
SystemNext == Next \/ AdminStep

SystemSpec == Init /\ [][SystemNext]_vars

-----------------------------------------------------------------------------
(* Generation requests served at the same time: generate_image_api is a
   plain def, which the server runs on a worker thread of its own for each
   request.  The state the requests share is the registry, and the only
   statement of generate_image_api that changes it is the set_character of
   line 87; this is that statement of another request, taken between any
   two statements of the request that is followed. *)

\* api_image.py lines 86-87 in another request
OtherStoreCharacter ==
    /\ nother < MaxOtherRequests
    /\ nother' = nother + 1
    /\ \E a \in AccessIds, d \in OtherDescriptions :
        /\ CarriesCharacter([access_id_character |-> d])
        /\ character_map' = set_character(character_map, a, d)
        /\ trail' = SetLogged(trail, character_map, a, d, "concurrent")
        /\ last_call' = NextCall("set", a, d, None, FALSE)
    /\ UNCHANGED << client, handler_vars, lock_vars, fcall, nadmin,
                    singleton >>

ConcurrentNext == Next \/ OtherStoreCharacter

ConcurrentSpec == Init /\ [][ConcurrentNext]_vars

-----------------------------------------------------------------------------
(* Claims about the character registry *)

\* C11: last write wins. When the last two writes of an access_id are
\* set_character(id, d1) and then set_character(id, d2), both with a
\* non-blank description, get_character(id) returns d2 stripped, and the
\* map holds nothing of d1 for that id.
C11_LastWriteWins ==
    \A a \in DOMAIN trail :
        (trail[a].prev.op = "set" /\ trail[a].last.op = "set")
            => /\ get_character(character_map, a) = Strip(trail[a].last.arg)
               /\ a \in DOMAIN character_map
               /\ (Strip(trail[a].prev.arg) # Strip(trail[a].last.arg)
                       => character_map[a] # Strip(trail[a].prev.arg))

\* two different descriptions were set one after the other for "u"
C11_Witness ==
    /\ trail[<< "u" >>].prev.op = "set"
    /\ trail[<< "u" >>].prev.arg = << " ", "c" >>
    /\ trail[<< "u" >>].last.op = "set"
    /\ trail[<< "u" >>].last.arg = << "d", " " >>
    /\ character_map[<< "u" >>] = << "d" >>

\* C12: a set_character call whose description is empty or whitespace, or
\* whose access_id is empty or whitespace, leaves the whole map as it was.
C12_BlankSetIsNoOp ==
    [][ ( /\ last_call'.seq # last_call.seq
          /\ last_call'.op = "set"
          /\ (~NotBlank(last_call'.id) \/ ~NotBlank(last_call'.arg)) )
            => character_map' = character_map ]_vars

\* a blank description was set for an access_id that has an entry, and a
\* description was set for a blank access_id while the map has entries
C12_Witness ==
    /\ last_call.op = "set"
    /\ DOMAIN character_map = AccessIds
    /\ \/ (last_call.id = << "u" >> /\ last_call.arg = << " " >>)
       \/ (last_call.id = << " " >> /\ last_call.arg = << "d", " " >>)

\* C13: remove_character(id) returns true exactly when id had an entry
\* just before the call; from the call on, until the next set_character
\* that stores, has_character(id) is false and get_character(id) is None.
C13_RemoveReportsAndDeletes ==
    /\ last_call.op = "remove" => last_call.flag = last_call.existed
    /\ \A a \in DOMAIN trail :
           trail[a].last.op = "remove"
               => /\ trail[a].last.ret = trail[a].last.existed
                  /\ ~has_character(character_map, a)
                  /\ get_character(character_map, a) = None

\* an entry was removed, then a blank description was set for it
C13_Witness ==
    /\ trail[<< "u" >>].last.op = "remove"
    /\ trail[<< "u" >>].last.ret
    /\ trail[<< "u" >>].prev.op = "set"
    /\ last_call.op = "set"
    /\ last_call.id = << "u" >>

\* C14: in every state reached by set_character, remove_character and
\* clear_all calls of the generation path and of the management interface,
\* every stored description is a non-empty text without leading or trailing
\* whitespace.
C14_StoredDescriptionsTrimmed ==
    \A a \in DOMAIN character_map :
        /\ character_map[a] # None
        /\ character_map[a] # << >>
        /\ Strip(character_map[a]) = character_map[a]

\* one entry written by a generation request, one by a management request,
\* both given with whitespace around them
C14_Witness ==
    /\ DOMAIN character_map = AccessIds
    /\ \E a, b \in AccessIds :
           /\ trail[a].last.op = "set"
           /\ trail[a].last.src = "generate"
           /\ trail[a].last.arg # Strip(trail[a].last.arg)
           /\ trail[b].last.op = "set"
           /\ trail[b].last.src = "admin"
           /\ trail[b].last.arg # Strip(trail[b].last.arg)

\* the segment of the prompt that names the character d
CharacterSegment(d) == << "Character: " >> \o Strip(d)

\* the last write of the owner's entry is the description an earlier
\* generation request carried, and the request being served carries none
LaterRequestOfOwner ==
    /\ pc # "idle"
    /\ ~CarriesCharacter(req)
    /\ trail[req.access_id].last.op = "set"
    /\ trail[req.access_id].last.src = "generate"

\* the description the owner's earlier request carried
CarriedDescription == trail[req.access_id].last.arg

\* the request being served went through the lookup of its character
PassedResolveCharacter ==
    /\ pc \notin {"idle", "validate", "store", "lookup"}
    /\ (outcome = "returned" => ResponseKind(response) # "ValidationError")

\* C16 as stated: every later request of the owner without a description,
\* once served, has resolved the stored description and has sent the image
\* generator a prompt with the segment 'Character: ' + d trimmed.
C16_AsStated ==
    (LaterRequestOfOwner /\ pc = "done")
        => /\ saved_character = Strip(CarriedDescription)
           /\ calls.generate_image > 0
           /\ ContainsSeq(final_prompt, CharacterSegment(CarriedDescription))

\* C16: a later request of the owner without a description, with no write
\* of the owner's entry in between, resolves the stored description once it
\* has passed ResolveCharacter; every prompt it composes or sends to the
\* image generator holds the segment 'Character: ' + d trimmed; and it
\* ends without a call of the image generator only as a validation error,
\* a purification error or an unexpected error.
C16_CharacterPersists ==
    LaterRequestOfOwner
        => /\ PassedResolveCharacter
                  => saved_character = Strip(CarriedDescription)
           /\ (ev.compose = "returned" \/ calls.generate_image > 0)
                  => ContainsSeq(final_prompt,
                                 CharacterSegment(CarriedDescription))
           /\ (pc = "done" /\ outcome = "returned"
                   /\ calls.generate_image = 0)
                  => ResponseKind(response) \in
                         { "ValidationError", "PurificationError",
                           "UnexpectedError" }

\* the second request of "u" carries no description and the image
\* generator was called with the description of the first in the prompt
C16_Witness ==
    /\ LaterRequestOfOwner
    /\ nreq = 2
    /\ req.access_id_character = None
    /\ calls.generate_image > 0
    /\ saved_character = << "c" >>
    /\ ContainsSeq(final_prompt, << "Character: ", "c", ".", " ", "Scene: " >>)

\* the thread is between the first statement under the lock and the return
InsideLock(t) == threads[t].at \in {"held", "held2", "leaving"}

\* C15: every method of the registry reads and writes the map only while
\* its thread holds the one lock of the registry, so no two threads are
\* inside at once and no method sees the map between two statements of
\* another; a get_character that runs beside writes returns an entry its
\* access_id had, before or after a write, and get_stats counts the ids it
\* lists.
C15_LockGuardsMap ==
    /\ \A t \in Threads : InsideLock(t) => lock = t
    /\ \A t, u \in Threads : (InsideLock(t) /\ InsideLock(u)) => t = u
    /\ \A t \in Threads :
           /\ ~threads[t].raised
           /\ (threads[t].op = "get" /\ threads[t].at = "leaving")
                  => threads[t].text \in threads[t].seen
           /\ (threads[t].op = "stats" /\ threads[t].at = "leaving")
                  => threads[t].count = Cardinality(threads[t].ids)

\* a get_character waited for the lock while another thread stored a
\* description for the same access_id, and returned the new description
C15_Witness ==
    \E t, u \in Threads :
        /\ t # u
        /\ threads[t].op = "get"
        /\ threads[t].at = "leaving"
        /\ threads[t].seen = { None, << "c" >> }
        /\ threads[t].text = << "c" >>
        /\ threads[u].at = "waiting"

-----------------------------------------------------------------------------
(* Claims about the prompt composer and the output validator *)

\* the first five style keywords joined by ', '
StyleSegment ==
    << "webtoon style illustration", ",", " ", "clean lines", ",", " ",
       "vibrant colors", ",", " ", "professional digital illustration",
       ",", " ", "studio quality" >>

\* C17: build_webtoon_prompt returns the segments that are present, in the
\* order style (iff include_style), 'Character: ' + trimmed description (iff
\* the description is non-blank), 'Scene: ' + trimmed scene (iff the scene is
\* non-blank), joined with '. ' and ended by one period; without a
\* character description the result is style then scene and holds no
\* 'Character: ' segment.
C17_PromptSegments ==
    fcall.fn = "build_webtoon_prompt" =>
        LET c == fcall.arg1
            sc == fcall.arg2
            st == fcall.arg3
            hasC == c # None /\ Strip(c) # << >>
            hasS == Strip(sc) # << >>
            C == << "Character: " >> \o Strip(c)
            S == << "Scene: " >> \o Strip(sc)
            D == << ".", " " >>
            E == << "." >>
        IN  /\ fcall.text =
                 CASE st /\ hasC /\ hasS -> StyleSegment \o D \o C \o D \o S \o E
                   [] st /\ hasC /\ ~hasS -> StyleSegment \o D \o C \o E
                   [] st /\ ~hasC /\ hasS -> StyleSegment \o D \o S \o E
                   [] st /\ ~hasC /\ ~hasS -> StyleSegment \o E
                   [] ~st /\ hasC /\ hasS -> C \o D \o S \o E
                   [] ~st /\ hasC /\ ~hasS -> C \o E
                   [] ~st /\ ~hasC /\ hasS -> S \o E
                   [] ~st /\ ~hasC /\ ~hasS -> E
            /\ ~hasC => ~Contains(fcall.text, "Character: ")

\* a prompt of all three segments from arguments with whitespace around
\* them
C17_Witness ==
    /\ fcall.fn = "build_webtoon_prompt"
    /\ fcall.arg1 = << "c", " ", "d", " " >>
    /\ fcall.arg2 = << " ", "b", "." >>
    /\ fcall.arg3
    /\ fcall.text = StyleSegment
                     \o << ".", " ", "Character: ", "c", " ", "d" >>
                     \o << ".", " ", "Scene: ", "b", ".", "." >>

Retained(original, purified) ==
    Cardinality({ w \in WordSet(original) : w \in WordSet(purified) })
Distinct(original) == Cardinality(WordSet(original))

\* C20: check_meaning_preservation returns false whenever less than 0.4 of
\* the distinct words of the original occur in the purified text, and true
\* when the fraction is 0.4 or more.
C20_MeaningThreshold ==
    (fcall.fn = "check_meaning_preservation" /\ Distinct(fcall.arg1) > 0) =>
        LET k == Retained(fcall.arg1, fcall.arg2)
            n == Distinct(fcall.arg1)
        IN  /\ (10 * k < 4 * n) => ~fcall.flag
            /\ (10 * k >= 4 * n) => fcall.flag

\* two of five distinct words are kept: the fraction is exactly 0.4
C20_Witness ==
    /\ fcall.fn = "check_meaning_preservation"
    /\ Distinct(fcall.arg1) = 5
    /\ Retained(fcall.arg1, fcall.arg2) = 2
    /\ fcall.flag

\* C21: for every original that is a whitelist entry and every purified
\* text, post_process(original, purified) returns the original unchanged.
C21_WhitelistBypass ==
    (fcall.fn = "post_process" /\ fcall.arg1 \in WHITELIST)
        => fcall.text = fcall.arg1

\* the purified text passes every check and differs from the original,
\* a whitelist entry, which is returned
C21_Witness ==
    /\ fcall.fn = "post_process"
    /\ fcall.arg1 = << "jo", "a" >>
    /\ fcall.arg2 = << "jo", "a", "." >>
    /\ validate_output(fcall.arg2)
    /\ ~is_over_modified(fcall.arg1, fcall.arg2)
    /\ check_meaning_preservation(fcall.arg1, fcall.arg2)
    /\ fcall.text = << "jo", "a" >>

-----------------------------------------------------------------------------
(* Claims about the fields and the stages of generate_image_api *)

\* the scene text the Purify stage leaves: what refine returned when
\* is_slang, the original otherwise
PurifiedScene == IF req.is_slang THEN ev.purified ELSE req.original_content

\* C22: every response echoes access_id, is_slang and original_content of
\* the request unchanged, and every failure response of the transport
\* error, service error, policy rejection and unexpected error kinds carries
\* in filtered_content the scene text the Purify stage left.
C22_EchoAndFilteredContent ==
    outcome = "returned" =>
        /\ response.access_id = req.access_id
        /\ response.is_slang = req.is_slang
        /\ response.original_content = req.original_content
        /\ ResponseKind(response) \in
               { "GenerationTransportError", "GenerationServiceError",
                 "PolicyRejected", "UnexpectedError" }
              => /\ response.filtered_content = PurifiedScene
                 /\ NotBlank(response.filtered_content)

\* an unexpected error after the purifier rewrote the scene
C22_Witness ==
    /\ outcome = "returned"
    /\ ResponseKind(response) = "UnexpectedError"
    /\ req.is_slang
    /\ ev.refine = "returned"
    /\ response.filtered_content = << "a" >>
    /\ req.original_content = << " ", "b", "." >>

\* C23: whatever the backend call does (a response with or without data,
\* URL and revised prompt, BadRequestError, RateLimitError,
\* APIConnectionError, APIError, any other exception) and also with an
\* uninitialised client, a blank prompt or a blank model name,
\* generate_image returns a dict in which image_url is None exactly when
\* error_message is not None, and refined_content is None whenever
\* image_url is None.
C23_GenerateImageDict ==
    fcall.fn = "generate_image" =>
        /\ fcall.dict.image_url = None <=> fcall.dict.error_message # None
        /\ fcall.dict.image_url = None => fcall.dict.refined_content = None
        /\ fcall.dict.image_url # None => NotBlank(fcall.dict.image_url)

\* the backend answered with a revised prompt and a blank URL
C23_Witness ==
    /\ fcall.fn = "generate_image"
    /\ fcall.arg3
    /\ NotBlank(fcall.arg1)
    /\ NotBlank(fcall.arg2)
    /\ fcall.env.kind = "resp"
    /\ fcall.env.shape = "item"
    /\ ~NotBlank(fcall.env.url)
    /\ fcall.env.revised # None
    /\ fcall.dict.error_message = << "OpenAI response has no image url" >>

\* C24 as stated: with other generation requests of the same access_id
\* served at the same time, a request that carries a non-blank description
\* d resolves d trimmed in ResolveCharacter, and the prompt it composes holds
\* the segment 'Character: ' + d trimmed.
C24_AsStated ==
    (CarriesCharacter(req) /\ PassedResolveCharacter)
        => /\ saved_character = Strip(req.access_id_character)
           /\ ev.compose = "returned"
                  => ContainsSeq(final_prompt,
                                 CharacterSegment(req.access_id_character))

\* the request that is followed is past ResolveCharacter
ResolveCharacterDone ==
    /\ pc \notin {"idle", "validate", "store", "store_call", "lookup",
                  "lookup_call"}
    /\ (outcome = "returned" => ResponseKind(response) # "ValidationError")

\* C25: a generation request calls the registry only in ResolveCharacter:
\* set_character once when it carries a description and never otherwise,
\* then get_character once, both returned before refine or any later
\* external call is made; from then on its thread is in no registry method
\* and does not hold the registry lock, so it keeps no other request from
\* the registry while refine, generate_image, translate_to_korean or
\* ko_to_ko_translate runs.
C25_RegistryOnlyInResolveCharacter ==
    /\ calls.set_character <= 1
    /\ calls.get_character <= 1
    /\ calls.set_character = 1 => CarriesCharacter(req)
    /\ (threads[Worker].op = "get" \/ calls.get_character = 1)
           => (calls.set_character = 1 <=> CarriesCharacter(req))
    /\ threads[Worker].at # "idle" => pc \in {"store_call", "lookup_call"}
    /\ pc \notin {"store_call", "lookup_call"} => lock # Worker
    /\ ResolveCharacterDone => calls.get_character = 1
    /\ (calls.refine + calls.generate_image + calls.translate_to_korean
            + calls.ko_to_ko_translate > 0) => ResolveCharacterDone

\* the image generator is about to be called for a request that stored its
\* description and was purified, while another request is inside
\* set_character with the lock
C25_Witness ==
    /\ pc = "generate"
    /\ calls.set_character = 1
    /\ calls.get_character = 1
    /\ calls.refine = 1
    /\ \E t \in Threads \ { Worker } :
           /\ threads[t].at = "held"
           /\ threads[t].op = "set"
           /\ threads[t].id = req.access_id
           /\ lock = t

\* the stages of a request in the order of the code
StageOrder ==
    << "Validate", "ResolveCharacter", "Purify", "ComposePrompt", "Generate",
       "ClassifyResult", "Localize", "Respond" >>

\* the stages of request r: Purify is skipped without is_slang
StagesOf(r) ==
    SelectSeq(StageOrder, LAMBDA stage : stage # "Purify" \/ r.is_slang)

IsPrefix(s, t) == Len(s) <= Len(t) /\ SubSeq(t, 1, Len(s)) = s

\* the stage at which a response of each outcome is returned
TerminalStage(kind) ==
    CASE kind = "ValidationError" -> "Validate"
      [] kind = "PurificationError" -> "Purify"
      [] kind = "UnexpectedError" -> "ComposePrompt"
      [] kind = "GenerationTransportError" -> "Generate"
      [] kind \in {"GenerationServiceError", "PolicyRejected"} -> "ClassifyResult"
      [] kind = "Success" -> "Respond"
      [] OTHER -> "none"

\* C26: the stages a request has run are always a prefix of Validate,
\* ResolveCharacter, Purify (with is_slang), ComposePrompt, Generate,
\* ClassifyResult, Localize, Respond; the stage that returned a response is the last one
\* run and no stage runs after it; generate_image is called only for a
\* non-blank scene text and, with is_slang, only after refine returned
\* non-blank text; translate_to_korean and compose_korean_scene are called
\* only after generate_image returned an image URL and no policy rejection.
C26_FixedStageOrder ==
    /\ [](IsPrefix(stages, StagesOf(req)))
    /\ [](outcome = "returned" =>
             /\ stages # << >>
             /\ stages[Len(stages)] = TerminalStage(ResponseKind(response)))
    /\ [][pc = "done" => (stages' = stages \/ stages' = << >>)]_vars
    /\ [](calls.generate_image > 0 =>
             /\ NotBlank(req.original_content)
             /\ req.is_slang =>
                    /\ ev.refine \in {"returned", "model_raised"}
                    /\ NotBlank(ev.purified))
    /\ []((\/ ev.translate # "none"
           \/ ev.localize # "none"
           \/ calls.translate_to_korean > 0
           \/ calls.ko_to_ko_translate > 0) =>
             /\ ev.generate = "returned"
             /\ dalle_result.image_url # None
             /\ ~PolicyResult(dalle_result))

\* a purified request that ran all eight stages, with both translations
C26_Witness ==
    /\ pc = "done"
    /\ req.is_slang
    /\ ev.refine = "returned"
    /\ stages = StageOrder
    /\ calls.translate_to_korean = 1
    /\ calls.ko_to_ko_translate = 1
    /\ ResponseKind(response) = "Success"

\* C27 as stated: with is_slang, the filtered scene text a request goes on
\* with after the Purify stage is post_process(original_content, the text
\* refine returned).
C27_AsStated ==
    (/\ req.is_slang
     /\ ev.refine \in {"returned", "model_raised"}
     /\ NotBlank(ev.purified))
        => filtered_content = post_process(req.original_content, ev.purified)

\* C28: a request with is_slang = false that passed validation skips the
\* Purify stage: refine is not called, the scene text given to the prompt
\* composer is original_content, and filtered_content, in the handler and
\* in the response, is original_content.
C28_PurifySkipped ==
    (~req.is_slang /\ pc # "idle") =>
        /\ calls.refine = 0
        /\ ev.refine = "none"
        /\ "Purify" \notin { stages[i] : i \in DOMAIN stages }
        /\ pc = "compose" =>
               /\ final_prompt = req.original_content
               /\ filtered_content = req.original_content
        /\ ev.compose = "returned" =>
               final_prompt =
                   build_webtoon_prompt(IF Truthy(saved_character)
                                        THEN saved_character ELSE None,
                                        req.original_content, TRUE)
        /\ (outcome = "returned"
                /\ ResponseKind(response) # "ValidationError") =>
               response.filtered_content = req.original_content

\* an image was generated for a scene text with whitespace around it
C28_Witness ==
    /\ pc = "done"
    /\ ~req.is_slang
    /\ req.original_content = << " ", "b", "." >>
    /\ ResponseKind(response) = "Success"
    /\ response.filtered_content = << " ", "b", "." >>
    /\ calls.generate_image = 1

Translated(h) == h.kind = "json" /\ h.shape = "list"

ComposedAsStated(character, scene) ==
    IF Truthy(character) THEN Strip(character) \o KO_SCENE_WITH \o Strip(scene)
    ELSE scene

\* the sentence compose_korean_scene composes: both texts trimmed
Composed(character, scene) ==
    IF Truthy(character) THEN Strip(character) \o KO_SCENE_WITH \o Strip(scene)
    ELSE Strip(scene)

\* what the ko-to-ko translation service makes of a text when it answers
KoTranslations ==
    { Strip(JoinTruthy(h.segs)) :
          h \in { k \in KoBehaviours : k.kind = "json" /\ k.shape = "list" } }

\* C31 as stated: refined_content of a Success response is the translation
\* of the composed sentence, or the composed sentence itself, which is the
\* scene text unchanged when there is no character description.
C31_AsStated ==
    (outcome = "returned" /\ ResponseKind(response) = "Success"
        /\ ev.localize = "returned")
        => response.refined_content \in
               KoTranslations
                   \cup { ComposedAsStated(saved_character, filtered_content) }

\* C31 as amended: when compose_korean_scene returned, refined_content of a
\* Success response is the translation of the composed sentence or the
\* composed sentence itself, which is the character description trimmed,
\* the joining clause and the scene text trimmed, or the scene text trimmed
\* when there is no character description; a failing translation request
\* gives the composed sentence.  When the preparation of the response
\* raises, refined_content is the filtered scene text.
C31_KoreanScene ==
    (outcome = "returned" /\ ResponseKind(response) = "Success") =>
        /\ ev.localize \in {"returned", "raised"}
        /\ ev.localize = "returned" =>
               /\ response.refined_content \in
                      KoTranslations
                          \cup { Composed(saved_character, filtered_content) }
               /\ response.refined_content \in
                      { compose_korean_scene(saved_character,
                                             filtered_content, h) :
                            h \in KoBehaviours }
        /\ ev.localize = "raised" =>
               response.refined_content = filtered_content

\* no character, a scene text with a leading space, the translation request
\* failed: the response carries the scene text trimmed
C31_Witness ==
    /\ outcome = "returned"
    /\ ResponseKind(response) = "Success"
    /\ ev.localize = "returned"
    /\ saved_character = None
    /\ filtered_content = << " ", "b", "." >>
    /\ response.refined_content = << "b", "." >>

-----------------------------------------------------------------------------
(* Claims about the output validator and the purifier *)

\* every check of post_process lets the purified text through
AllChecksPass(original, purified) ==
    /\ validate_output(purified)
    /\ ~is_over_modified(original, purified)
    /\ check_meaning_preservation(original, purified)
    /\ ~is_whitelisted(original)

\* C32: post_process returns purified.strip() when the purified text is
\* structurally valid, not over-modified, meaning-preserving and the
\* original is not whitelisted, and the original in every other case; the
\* check it reports as the cause of a fallback is the first that triggers
\* in the order validate_output, is_over_modified,
\* check_meaning_preservation, is_whitelisted.
C32_PostProcessOrder ==
    fcall.fn = "post_process" =>
        /\ fcall.text \in { fcall.arg1, Strip(fcall.arg2) }
        /\ AllChecksPass(fcall.arg1, fcall.arg2) =>
               /\ fcall.text = Strip(fcall.arg2)
               /\ fcall.log = "none"
        /\ ~AllChecksPass(fcall.arg1, fcall.arg2) =>
               /\ fcall.text = fcall.arg1
               /\ fcall.log # "none"
        /\ fcall.log = "validate_output" <=> ~validate_output(fcall.arg2)
        /\ fcall.log = "is_over_modified" <=>
               /\ validate_output(fcall.arg2)
               /\ is_over_modified(fcall.arg1, fcall.arg2)
        /\ fcall.log = "check_meaning_preservation" <=>
               /\ validate_output(fcall.arg2)
               /\ ~is_over_modified(fcall.arg1, fcall.arg2)
               /\ ~check_meaning_preservation(fcall.arg1, fcall.arg2)

\* a purified text with a trailing space passes every check and comes back
\* trimmed
C32_Witness ==
    /\ fcall.fn = "post_process"
    /\ fcall.arg1 = << "a", " ", "b" >>
    /\ fcall.arg2 = << "b", " ", "a", " " >>
    /\ fcall.log = "none"
    /\ fcall.text = << "b", " ", "a" >>

\* one character five times in a row somewhere in the text
RunOfFive(text) ==
    \E i \in 1 .. (Len(text) - 4) :
        \E c \in { text[i] } : SubSeq(text, i, i + 4) = << c, c, c, c, c >>

\* the text holds one of the six special tokens
HoldsSpecialToken(text) ==
    \E i \in 1 .. Len(text), j \in 1 .. Len(text) :
        SubSeq(text, i, j) \in INVALID_TOKENS

\* C33: validate_output(text) is false exactly when the text is empty or
\* blank, or its trimmed length is below 2, or a character is repeated five
\* or more times in a row, or it holds no Hangul syllable and no Latin
\* letter, or it holds one of '<unk>', '[PAD]', '[UNK]', '<pad>', '<s>',
\* '</s>'; in every other case it is true.
C33_ValidateOutput ==
    fcall.fn = "validate_output" =>
        (~fcall.flag <=>
            \/ fcall.arg1 = << >>
            \/ \A i \in 1 .. Len(fcall.arg1) : fcall.arg1[i] = " "
            \/ Len(Strip(fcall.arg1)) < 2
            \/ RunOfFive(fcall.arg1)
            \/ \A i \in 1 .. Len(fcall.arg1) : fcall.arg1[i] \in NonLetters
            \/ HoldsSpecialToken(fcall.arg1))

\* a character four times in a row is accepted
C33_Witness ==
    /\ fcall.fn = "validate_output"
    /\ fcall.arg1 = << "a", "a", "a", "a", "b" >>
    /\ fcall.flag

\* the text is whitelist entries one after the other and nothing else
RECURSIVE ComposedOfEntries(_)
ComposedOfEntries(text) ==
    \/ text = << >>
    \/ \E e \in WHITELIST :
           /\ Len(e) <= Len(text)
           /\ SubSeq(text, 1, Len(e)) = e
           /\ ComposedOfEntries(SubSeq(text, Len(e) + 1, Len(text)))

\* C34 as stated: is_whitelisted(text) is true exactly when the text with
\* the whitespace around it and the spaces inside it removed is a whitelist
\* entry, or is at most 5 characters long and made up of whitelist entries
\* only.
C34_AsStated ==
    fcall.fn = "is_whitelisted" =>
        (fcall.flag <=>
            LET text_clean == WithoutSpaces(Strip(fcall.arg1))
            IN  \/ text_clean \in WHITELIST
                \/ /\ Len(text_clean) <= 5
                   /\ ComposedOfEntries(text_clean))

------------------------------------------------------------------------------
(* Claims about the registry as a whole *)

\* C36: a generation request whose original_content is empty or
\* whitespace-only leaves the registry as it was, also when it carries a
\* non-blank access_id_character: no step of such a request changes
\* _character_map, and it makes no call of set_character.
C36_RejectedRequestWritesNothing ==
    [][ ~NotBlank(req.original_content) =>
            /\ character_map' = character_map
            /\ trail' = trail
            /\ req' = req => calls'.set_character = 0 ]_vars

\* a rejected request that carried a description for an access_id that has
\* no entry, and has none afterwards
C36_Witness ==
    /\ pc = "done"
    /\ outcome = "returned"
    /\ stages = << "Validate" >>
    /\ req.original_content = << " " >>
    /\ CarriesCharacter(req)
    /\ req.access_id \notin DOMAIN character_map
    /\ get_character(character_map, req.access_id) = None

\* another request, of another owner than the request that is followed,
\* has stored its description
OtherOwnerWrote ==
    \E b \in AccessIds \ { req.access_id } :
        "concurrent" \in { trail[b].last.src, trail[b].prev.src }

\* no other request of the owner of the request that is followed wrote
\* the owner's entry last
OwnerUndisturbed ==
    /\ req.access_id \in DOMAIN trail
    /\ trail[req.access_id].last.src # "concurrent"

\* what the owner of the request that is followed stored last
OwnLastWrite ==
    IF req.access_id \in DOMAIN trail /\ trail[req.access_id].last.op = "set"
    THEN Strip(trail[req.access_id].last.arg)
    ELSE None

\* C37: owner isolation.  A step of a generation request changes the entry
\* of no access_id but its own, and its own only by the set_character of a
\* request that carries a non-blank description; no step of a request
\* removes an entry; set_character and remove_character for one access_id
\* leave what get_character returns for every other access_id; and a
\* request resolves what its own owner stored, however many requests of
\* other owners store their descriptions meanwhile.
C37_OwnerIsolation ==
    /\ [](\A a \in StoreIds : \A b \in AccessIds \ { a } :
              /\ \A d \in StoreDescriptions :
                     get_character(set_character(character_map, a, d), b)
                         = get_character(character_map, b)
              /\ get_character(remove_character(character_map, a), b)
                     = get_character(character_map, b))
    /\ [][ /\ DOMAIN character_map \subseteq DOMAIN character_map'
           /\ \A b \in AccessIds :
                  get_character(character_map', b) # get_character(character_map, b)
                      => \/ /\ nother' = nother
                            /\ pc = "store"
                            /\ req.access_id = b
                            /\ CarriesCharacter(req)
                         \/ /\ nother' # nother
                            /\ last_call'.op = "set"
                            /\ last_call'.id = b
           /\ (PassedResolveCharacter /\ OwnerUndisturbed)
                  => saved_character =
                         IF CarriesCharacter(req)
                         THEN Strip(req.access_id_character)
                         ELSE OwnLastWrite ]_vars

\* a request of one owner resolved its own description while a request of
\* another owner stored another one, and both entries are in the map
C37_Witness ==
    /\ nother = 1
    /\ OtherOwnerWrote
    /\ PassedResolveCharacter
    /\ req.access_id = << "v" >>
    /\ CarriesCharacter(req)
    /\ saved_character = << "c" >>
    /\ get_character(character_map, << "u" >>) = << "e" >>
    /\ get_character(character_map, << "v" >>) = << "c" >>

\* the access_ids a caller may ask for, and those of the map
AskedIds == StoreIds \cup DOMAIN character_map

\* C38: in every reachable state of the registry and for every access_id,
\* has_character answers true exactly when get_character returns a
\* description and not None; get_stats reports as total_characters the
\* number of access_ids it lists, and lists exactly the access_ids for
\* which has_character answers true.
C38_ObserversAgree ==
    /\ \A a \in AskedIds :
           has_character(character_map, a)
               <=> get_character(character_map, a) # None
    /\ get_stats(character_map).total_characters
           = Cardinality(get_stats(character_map).access_ids)
    /\ get_stats(character_map).access_ids
           = { a \in AskedIds : has_character(character_map, a) }
    /\ last_call.op = "has"
           => (last_call.flag
                   <=> get_character(character_map, last_call.id) # None)
    /\ last_call.op = "get"
           => (last_call.text # None
                   <=> has_character(character_map, last_call.id))

\* has_character answered true for one of two entries after the entry of
\* the other access_id was written last
C38_Witness ==
    /\ last_call.op = "has"
    /\ last_call.flag
    /\ last_call.id = << "u" >>
    /\ get_stats(character_map).total_characters = 2
    /\ get_stats(character_map).access_ids = AccessIds
    /\ trail[<< "u" >>].prev.op = "remove"
    /\ ~has_character(character_map, << " " >>)

------------------------------------------------------------------------------
(* The management lookup served beside the writers of the registry
   (app/api/v1/api_character.py 43-57): get_character_info is a plain def
   that calls get_character and then has_character, each of which takes and
   releases _access_lock on its own, so a write of another request can fall
   between the two calls. *)

\* the lookup of access_id a at the statement "at", with what it has read
InfoThread(at, a, character, exists) ==
    Thread(at, "info", a, None, character, exists, 0, {}, FALSE, {})

\* lines 44-48: the lookup is called
get_character_info ==
    /\ threads[Worker].at = "idle"
    /\ \E a \in AccessIds :
           threads' = [threads EXCEPT ![Worker] =
                          InfoThread("info_called", a, None, FALSE)]
    /\ UNCHANGED << character_map, lock, client, handler_vars, registry_log,
                    fcall, nadmin, nother, singleton >>

\* line 50: character = character_store.get_character(access_id)
InfoGetCharacter ==
    /\ threads[Worker].at = "info_called"
    /\ threads' = [threads EXCEPT ![Worker] =
                      InfoThread("info_got", @.id,
                                 get_character(character_map, @.id), FALSE)]
    /\ UNCHANGED << character_map, lock, client, handler_vars, registry_log,
                    fcall, nadmin, nother, singleton >>

\* line 51: exists = character_store.has_character(access_id)
InfoHasCharacter ==
    /\ threads[Worker].at = "info_got"
    /\ threads' = [threads EXCEPT ![Worker] =
                      InfoThread("info_answered", @.id, @.text,
                                 has_character(character_map, @.id))]
    /\ UNCHANGED << character_map, lock, client, handler_vars, registry_log,
                    fcall, nadmin, nother, singleton >>

\* lines 53-57: the response is returned
InfoRespond ==
    /\ threads[Worker].at = "info_answered"
    /\ threads' = [threads EXCEPT ![Worker] = IdleThread]
    /\ UNCHANGED << character_map, lock, client, handler_vars, registry_log,
                    fcall, nadmin, nother, singleton >>

LookupNext ==
    \/ get_character_info
    \/ InfoGetCharacter
    \/ InfoHasCharacter
    \/ InfoRespond
    \/ OtherStoreCharacter
    \/ AdminStep

LookupSpec == Init /\ [][LookupNext]_vars

\* C39 as stated: the response of get_character_info has exists true if
\* and only if character_description is not null, also when set_character,
\* remove_character or clear_all of the same access_id run beside the
\* lookup.
C39_AsStated ==
    threads[Worker].at = "info_answered"
        => (threads[Worker].flag <=> threads[Worker].text # None)

------------------------------------------------------------------------------
(* Constructions of the registry (app/core/character_store.py 16-34,
   147-148).  The first CharacterStore() is line 148, run once by the import
   of the module, which no other thread can overtake: a thread that imports
   the module meanwhile waits for the import to end.  From then on any
   thread may call CharacterStore() again, __new__ and __init__ being two
   steps of it, beside the other constructions and the writes of the
   registry. *)

\* a thread inside CharacterStore(): where it is and the object it was given
Constructing(at, object) ==
    Thread(at, "construct", None, None, None, FALSE, object, {}, FALSE, {})

\* line 148
ImportStore ==
    /\ singleton = ClassDefined
    /\ singleton' = StoreInit(StoreNew(singleton))
    /\ character_map' = StoreInitMap(StoreNew(singleton), character_map)
    /\ UNCHANGED << client, handler_vars, registry_log, lock_vars, fcall,
                    nadmin, nother >>

\* CharacterStore() on thread t: __new__ returns cls._instance
ConstructNew(t) ==
    /\ threads[t].at = "idle"
    /\ singleton' = StoreNew(singleton)
    /\ threads' = [threads EXCEPT ![t] =
                      Constructing("init", StoreNew(singleton).objects)]
    /\ UNCHANGED << character_map, lock, client, handler_vars, registry_log,
                    fcall, nadmin, nother >>

\* CharacterStore() on thread t: __init__ runs on the object returned
ConstructInit(t) ==
    /\ threads[t].at = "init"
    /\ singleton' = StoreInit(singleton)
    /\ character_map' = StoreInitMap(singleton, character_map)
    /\ lock' = IF AlreadyInitialized(singleton) THEN lock ELSE 0
    /\ threads' = [threads EXCEPT ![t] = Constructing("constructed", @.count)]
    /\ UNCHANGED << client, handler_vars, registry_log, fcall, nadmin,
                    nother >>

\* the caller has the object
ConstructReturn(t) ==
    /\ threads[t].at = "constructed"
    /\ threads' = [threads EXCEPT ![t] = IdleThread]
    /\ UNCHANGED << character_map, lock, client, handler_vars, registry_log,
                    fcall, nadmin, nother, singleton >>

\* a registry call of the running server
StoreWrite ==
    /\ singleton # ClassDefined
    /\ CallSetCharacter

ConstructNext ==
    \/ ImportStore
    \/ StoreWrite
    \/ \E t \in Threads :
           /\ singleton # ClassDefined
           /\ \/ ConstructNew(t)
              \/ ConstructInit(t)
              \/ ConstructReturn(t)

ConstructSpec == ClassInit /\ [][ConstructNext]_vars

\* C40: the registry is one object initialised once.  Every CharacterStore()
\* returns the one object that line 148 created, also when several threads
\* construct at the same time; _character_map and _access_lock are assigned
\* once, by the first construction, and never again; and no step of a
\* construction changes the entries that are stored.
C40_SingletonInitialisedOnce ==
    /\ [](/\ singleton.objects <= 1
          /\ singleton.maps # "replaced"
          /\ singleton.locks # "replaced"
          /\ \A t \in Threads :
                 threads[t].op = "construct"
                     => /\ threads[t].count = 1
                        /\ singleton = Imported)
    /\ [][ /\ singleton # ClassDefined => singleton' = singleton
           /\ (\E t \in Threads : threads'[t] # threads[t])
                  => character_map' = character_map
           /\ \A a \in DOMAIN character_map :
                  a \in DOMAIN character_map' ]_vars

\* two threads are inside CharacterStore() at once, one of them past
\* __init__, after an entry was stored, and the entry is there
C40_Witness ==
    /\ threads[1].at = "init"
    /\ threads[2].at = "constructed"
    /\ threads[1].count = threads[2].count
    /\ singleton = Imported
    /\ get_character(character_map, << "u" >>) = << "c" >>

====
